---- MODULE Spec2Model ----
(***************************************************************************)
(* Model of the panel's control plane: the node table with its allocation  *)
(* lists, the canonical server table, the user table with its embedded     *)
(* server copies, the HTTP handlers of src/backend/core.js (the /api/v1    *)
(* handlers of src/unnamed/part_000 run the same statements), and the      *)
(* console and stats relay of src/modules/websocket.js.                    *)
(*                                                                         *)
(* Conventions.                                                            *)
(*  - Every table is what the key-value store (src/unnamed/part_002)       *)
(*    holds.  get() returns a private copy, so a handler that returns      *)
(*    before update()/put() leaves the table as it was.                    *)
(*  - Ids (crypto.randomUUID) are drawn from counters: never reused.       *)
(*  - 0 stands for undefined/null (no owner, no port, no id field).        *)
(*  - An allocation's type "" stands for both an absent type and "": the   *)
(*    code only ever compares type with "primary".                         *)
(*  - Fields no modelled handler reads or writes differently from its     *)
(*    neighbours (ram, core, disk, domain, createdAt, ...) are left out    *)
(*    of the records.                                                      *)
(***************************************************************************)
EXTENDS Integers, Sequences, FiniteSets, TLC

\* ------------------------------------------------------------------ bounds
MaxNodes == 2
MaxIP == 2
MaxName == 2
MaxPort == 2
MaxAllocs == 3
MaxServers == 2
MaxUsers == 2
MaxNetServers == 1
MaxInflight == 2
MaxContainer == 2
MaxImages == 2
MaxEnvKey == 2
MaxEnvVal == 2
MaxRelays == 1
MaxSent == 3
MaxFrames == 1
MaxPayload == 1

IPs == 1..MaxIP
Names == 1..MaxName
Ports == 1..MaxPort
Undef == 0

\* nodes    table "nodes": the node records in key (insertion) order
\* servers  table "servers": server id -> canonical record
\* users    table "users": user id -> user record with its embedded copies
\* fresh    the counters behind the generated ids
\* resp     the reply to the latest request
\* job      the node or user delete request whose loop is running, if any
\* pending  the claim requests waiting for the node agent's answer
\* relay    the console or stats relay session and its two streams
VARIABLES nodes, servers, users, fresh, resp, job, pending, relay

vars == <<nodes, servers, users, fresh, resp, job, pending, relay>>

\* ------------------------------------------------------------- sequences
\* The least member of a non-empty set of indices.
Least(I) == CHOOSE i \in I : \A j \in I : i <= j

\* Array.prototype.includes
Includes(s, x) == \E i \in 1..Len(s) : s[i] = x

\* ------------------------------------------------------------- the store
\* Index in unsqh.list("nodes") of the record stored under key id, or 0.
NodeIndex(id) ==
  LET I == {i \in 1..Len(nodes) : nodes[i].id = id}
  IN IF I = {} THEN 0 ELSE Least(I)

HasNode(id) == NodeIndex(id) # 0

\* unsqh.get("nodes", id): a private copy of the stored object.
GetNode(id) == nodes[NodeIndex(id)]

\* The id field of an object returned by unsqh.get("nodes", ...): get() does
\* not add the key, so the field is there only when the object was stored
\* with one (the API's node create stores it, the admin page's does not).
NodeIdField(n) == IF n.idField THEN n.id ELSE Undef

\* unsqh.update("nodes", id, {allocations}): replaces the whole list.
UpdateNodeAllocations(tbl, id, allocs) ==
  [i \in 1..Len(tbl) |->
     IF tbl[i].id = id THEN [tbl[i] EXCEPT !.allocations = allocs] ELSE tbl[i]]

\* unsqh.delete("nodes", id)
DeleteNodeRecord(tbl, id) == SelectSeq(tbl, LAMBDA n : n.id # id)

\* unsqh.put(table, id, object) on a table kept as a function
Put(tbl, id, object) ==
  [k \in (DOMAIN tbl) \cup {id} |-> IF k = id THEN object ELSE tbl[k]]

\* unsqh.delete(table, id)
Del(tbl, id) == [k \in (DOMAIN tbl) \ {id} |-> tbl[k]]

\* The reply to a request: res.status(status).json({error: err}) or
\* res.redirect(...?error=err), with the request's parameters (args) and how
\* the handler's call to the node agent ended ("ok", "fail", or "none" when
\* the handler returned before calling).
Answer(op, status, err, args, remote) ==
  [op |-> op, status |-> status, err |-> err, args |-> args, remote |-> remote]

\* A reply of a handler that calls no node agent.
Reply(op, status, err) == Answer(op, status, err, <<>>, "none")

\* ------------------------------------------------------------ node registry
\* POST /admin/node/create and POST /api/v1/node/create: a node with a new
\* id and an empty allocation list; only the API stores the id in the object.
CreateNode(name, ip, viaApi) ==
  /\ fresh.node < MaxNodes
  /\ nodes' = Append(nodes, [id |-> fresh.node + 1, idField |-> viaApi,
                             name |-> name, ip |-> ip, status |-> "offline",
                             allocations |-> <<>>])
  /\ fresh' = [fresh EXCEPT !.node = @ + 1]
  /\ resp' = Reply("createNode", 200, "")
  /\ UNCHANGED <<servers, users>>

\* --------------------------------------------------------- allocation ledger
BatchSize == 150
MaxBatch == 2

\* node.allocations.some((a) => a.ip === ip && a.port === p)
AllocationExists(allocs, ip, p) ==
  \E i \in 1..Len(allocs) : allocs[i].ip = ip /\ allocs[i].port = p

\* The allocation object the add handler builds: no type, no owner.
NewAllocation(id, ip, p) ==
  [id |-> id, ip |-> ip, port |-> p, type |-> "", owner |-> Undef]

\* for (let p = start; p <= end; p++) ports.push(p)
RangePorts(start, end) == [i \in 1..(end - start + 1) |-> start + i - 1]

RECURSIVE AddBatchNoTest(_, _, _, _, _)
AddBatchNoTest(allocs, ip, batch, base, len0) ==
  IF batch = <<>> THEN allocs
  ELSE AddBatchNoTest(Append(allocs,
                        NewAllocation(base + (Len(allocs) - len0) + 1, ip,
                                      Head(batch))),
                      ip, Tail(batch), base, len0)

RECURSIVE AddBatch(_, _, _, _, _)
\* batch.forEach: push an allocation for every port of the batch the list
\* does not hold yet for this ip.  The k-th allocation pushed by the request
\* gets id base + k; len0 is the length of the list before the request.
AddBatch(allocs, ip, batch, base, len0) ==
  IF batch = <<>> THEN allocs
  ELSE LET p == Head(batch)
           next == IF AllocationExists(allocs, ip, p) THEN allocs
                   ELSE Append(allocs,
                          NewAllocation(base + (Len(allocs) - len0) + 1, ip, p))
       IN AddBatch(next, ip, Tail(batch), base, len0)

RECURSIVE AddBatches(_, _, _, _, _, _, _)
\* for (let i = 0; i < ports.length; i += batchSize) over ports.slice(i, i + batchSize)
\* (i is 1-based here).
AddBatches(allocs, ip, ports, i, batchSize, base, len0) ==
  IF i > Len(ports) THEN allocs
  ELSE LET last == IF i + batchSize - 1 < Len(ports) THEN i + batchSize - 1
                   ELSE Len(ports)
       IN AddBatches(AddBatch(allocs, ip, SubSeq(ports, i, last), base, len0),
                     ip, ports, i + batchSize, batchSize, base, len0)

\* POST /admin/node/:id/allocations/add with port "start-end".
AddAllocationRange(nid, ip, start, end) ==
  IF ~HasNode(nid) THEN
    /\ resp' = Answer("addAllocation", 404, "Node not found",
                     <<nid, ip, start, end, 0>>, "none")
    /\ UNCHANGED <<nodes, servers, users, fresh>>
  ELSE IF ip = Undef THEN
    /\ resp' = Answer("addAllocation", 400, "IP and port are required",
                     <<nid, ip, start, end, 0>>, "none")
    /\ UNCHANGED <<nodes, servers, users, fresh>>
  ELSE IF start > end THEN
    /\ resp' = Answer("addAllocation", 400, "Invalid port range",
                     <<nid, ip, start, end, 0>>, "none")
    /\ UNCHANGED <<nodes, servers, users, fresh>>
  ELSE
    LET node == GetNode(nid)
        allocs == AddBatches(node.allocations, ip, RangePorts(start, end), 1,
                             BatchSize, fresh.alloc, Len(node.allocations))
        added == Len(allocs) - Len(node.allocations)
    IN /\ fresh.alloc + added <= MaxAllocs
       /\ nodes' = UpdateNodeAllocations(nodes, nid, allocs)
       /\ fresh' = [fresh EXCEPT !.alloc = @ + added]
       /\ resp' = Answer("addAllocation", 200, "",
                        <<nid, ip, start, end, added>>, "none")
       /\ UNCHANGED <<servers, users>>

\* POST /admin/node/:id/allocations/add with a single port.
AddAllocation(nid, ip, port) ==
  IF ~HasNode(nid) THEN
    /\ resp' = Reply("addAllocation", 404, "Node not found")
    /\ UNCHANGED <<nodes, servers, users, fresh>>
  ELSE IF ip = Undef \/ port = Undef THEN
    /\ resp' = Reply("addAllocation", 400, "IP and port are required")
    /\ UNCHANGED <<nodes, servers, users, fresh>>
  ELSE IF AllocationExists(GetNode(nid).allocations, ip, port) THEN
    /\ resp' = Reply("addAllocation", 409, "Allocation already exists")
    /\ UNCHANGED <<nodes, servers, users, fresh>>
  ELSE
    /\ fresh.alloc < MaxAllocs
    /\ nodes' = UpdateNodeAllocations(nodes, nid,
                   Append(GetNode(nid).allocations,
                          NewAllocation(fresh.alloc + 1, ip, port)))
    /\ fresh' = [fresh EXCEPT !.alloc = @ + 1]
    /\ resp' = Reply("addAllocation", 200, "")
    /\ UNCHANGED <<servers, users>>

\* Index of the allocation with this id in a list, or 0:
\* node.allocations.find((a) => a.id === allocationId)
AllocIndexById(allocs, aid) ==
  LET I == {i \in 1..Len(allocs) : allocs[i].id = aid}
  IN IF I = {} THEN 0 ELSE Least(I)

EditCollidesSelf(allocs, aid, ip, port) ==
  \E i \in 1..Len(allocs) :
     /\ allocs[i].ip = ip
     /\ allocs[i].port = port
     /\ allocs[i].id = aid

\* The collision test of the edit handler, made after the ip was patched:
\* some((a) => a.ip === (ip ?? allocation.ip) && a.port === Number(port)
\*             && a.id !== allocation.id)
EditCollides(allocs, aid, ip, port) ==
  \E i \in 1..Len(allocs) :
     /\ allocs[i].ip = ip
     /\ allocs[i].port = port
     /\ allocs[i].id # aid

\* POST /admin/node/:id/allocations/edit/:allocationId (and the /api/v1
\* twin).  ip and port are Undef when the body leaves them out.
EditAllocation(nid, aid, ip, port) ==
  IF ~HasNode(nid) THEN
    /\ resp' = Answer("editAllocation", 404, "Node or allocations not found",
                     <<nid, aid, ip, port>>, "none")
    /\ UNCHANGED <<nodes, servers, users, fresh>>
  ELSE IF AllocIndexById(GetNode(nid).allocations, aid) = 0 THEN
    /\ resp' = Answer("editAllocation", 404, "Allocation not found",
                     <<nid, aid, ip, port>>, "none")
    /\ UNCHANGED <<nodes, servers, users, fresh>>
  ELSE
    LET allocs == GetNode(nid).allocations
        k == AllocIndexById(allocs, aid)
        \* if (ip !== undefined) allocation.ip = ip
        withIp == IF ip # Undef THEN [allocs EXCEPT ![k].ip = ip] ELSE allocs
    IN IF port # Undef /\ EditCollides(withIp, aid, withIp[k].ip, port) THEN
         /\ resp' = Answer("editAllocation", 409, "IP and port already in use",
                     <<nid, aid, ip, port>>, "none")
         /\ UNCHANGED <<nodes, servers, users, fresh>>
       ELSE
         /\ nodes' = UpdateNodeAllocations(nodes, nid,
                        IF port # Undef THEN [withIp EXCEPT ![k].port = port]
                        ELSE withIp)
         /\ resp' = Answer("editAllocation", 200, "",
                     <<nid, aid, ip, port>>, "none")
         /\ UNCHANGED <<servers, users, fresh>>

\* DELETE /admin/node/:id/allocations/delete/:allocationId
DeleteAllocation(nid, aid) ==
  IF ~HasNode(nid) THEN
    /\ resp' = Reply("deleteAllocation", 404, "Node or allocations not found")
    /\ UNCHANGED <<nodes, servers, users, fresh>>
  ELSE
    LET allocs == GetNode(nid).allocations
        kept == SelectSeq(allocs, LAMBDA a : a.id # aid)
    IN IF Len(kept) = Len(allocs) THEN
         /\ resp' = Reply("deleteAllocation", 404, "Allocation not found")
         /\ UNCHANGED <<nodes, servers, users, fresh>>
       ELSE
         /\ nodes' = UpdateNodeAllocations(nodes, nid, kept)
         /\ resp' = Reply("deleteAllocation", 200, "")
         /\ UNCHANGED <<servers, users, fresh>>

\* ------------------------------------------------------------ initial state
\* The user table after the bootstrap utility made the first admin (user 1)
\* and the other users registered; nobody holds a server yet.
InitUsers == [u \in 1..MaxUsers |-> [id |-> u, admin |-> (u = 1), servers |-> <<>>]]

\* No delete loop is running.
NoNode == [id |-> Undef, idField |-> FALSE, name |-> Undef, ip |-> Undef,
           status |-> "offline", allocations |-> <<>>]

Idle == [kind |-> "idle", id |-> Undef, actor |-> Undef, list |-> <<>>, at |-> 1,
         node |-> NoNode, remote |-> "none"]

\* No frame of the node agent was handled yet.
NoFrame == [form |-> "none", event |-> "", payload |-> Undef]

\* No relay request was made yet.
NoRelay ==
  [n |-> 0, kind |-> "none", actor |-> Undef, sid |-> Undef,
   client |-> "none", reason |-> "", paired |-> FALSE,
   node |-> "none", nodeId |-> Undef, key |-> Undef, idt |-> Undef,
   sent |-> <<>>, seen |-> 0, last |-> NoFrame, got |-> <<>>]

InitEmpty ==
  /\ nodes = <<>>
  /\ servers = <<>>
  /\ users = InitUsers
  /\ fresh = [node |-> 0, alloc |-> 0, server |-> 0]
  /\ resp = Reply("none", 0, "")
  /\ job = Idle
  /\ pending = <<>>
  /\ relay = NoRelay

\* ----------------------------------------------- the allocation ledger alone
NodeIds == 1..MaxNodes
AllocIds == 1..MaxAllocs

\* The ledger never reads a node's name, ip or id field: one value of each.
\* The request is taken when no other request is being served.
Serial ==
  /\ job = Idle
  /\ UNCHANGED <<job, pending, relay>>

NextLedger ==
  \/ \E name \in {1}, ip \in {1}, viaApi \in {FALSE} :
        Serial /\ CreateNode(name, ip, viaApi)
  \/ \E nid \in NodeIds, ip \in IPs, port \in Ports :
        Serial /\ AddAllocation(nid, ip, port)
  \/ \E nid \in NodeIds, ip \in IPs, start \in Ports, end \in Ports :
        Serial /\ AddAllocationRange(nid, ip, start, end)
  \/ \E nid \in NodeIds, aid \in AllocIds, ip \in IPs \cup {Undef},
        port \in Ports \cup {Undef} : Serial /\ EditAllocation(nid, aid, ip, port)
  \/ \E nid \in NodeIds, aid \in AllocIds : Serial /\ DeleteAllocation(nid, aid)

SpecLedger == InitEmpty /\ [][NextLedger]_vars

\* C2: on every node, no two allocations share (ip, port).
UniqueIpPort ==
  \A n \in 1..Len(nodes) :
    \A i, j \in 1..Len(nodes[n].allocations) :
      (nodes[n].allocations[i].ip = nodes[n].allocations[j].ip
       /\ nodes[n].allocations[i].port = nodes[n].allocations[j].port) => i = j

\* ------------------------------------------------- server lifecycle manager
\* The server ids in the order unsqh.list("servers") yields them.
RECURSIVE SortedIds(_)
SortedIds(S) ==
  IF S = {} THEN <<>> ELSE <<Least(S)>> \o SortedIds(S \ {Least(S)})

\* unsqh.list("servers")
ListServers(tbl) == [i \in 1..Cardinality(DOMAIN tbl) |-> tbl[SortedIds(DOMAIN tbl)[i]]]

\* What the node agent names in its answers: the container it built and, at
\* create, the task.  The two are taken from sets with no common member.
ContainerIds == 1..MaxContainer
TaskId == MaxContainer + 1
FirstAnswer == [containerId |-> 1, idt |-> TaskId]
NodeAnswers == [containerId : ContainerIds, idt : {TaskId}]

\* Environments: objects from variable names to values.
EnvKeys == 1..MaxEnvKey
EnvVals == 1..MaxEnvVal
NoEnv == <<>>
Envs == UNION {[K -> EnvVals] : K \in SUBSET EnvKeys}

\* Table "images" as the image pages left it: image i declares the variables
\* 1..i (as far as there are names), each with the default value i.
ImageIds == 1..MaxImages
Images ==
  [i \in ImageIds |->
     [id |-> i,
      envs |-> [k \in {x \in EnvKeys : x <= i} |-> IF i \in EnvVals THEN i ELSE 1]]]

FinalEnvDefaultsOnly(image, env) ==
  [k \in DOMAIN image.envs |-> image.envs[k]]

\* for (const key of Object.keys(image.envs || {}))
\*   finalEnv[key] = env[key] ?? image.envs[key]
FinalEnv(image, env) ==
  [k \in DOMAIN image.envs |-> IF k \in DOMAIN env THEN env[k] ELSE image.envs[k]]

\* The body the create handler posts to the node agent's /server/create.
CreatePayload(finalEnv, allocation) ==
  [idt |-> Undef, env |-> finalEnv, port |-> allocation.port]

\* The serverData object of the create handler.  port is the allocation's
\* port; the object has no ports field yet.
ServerData(sid, userId, node, nodeId, allocation, imageId, finalEnv, data) ==
  [id |-> sid, userId |-> userId,
   node |-> [id |-> nodeId, ip |-> node.ip, name |-> node.name],
   allocationId |-> allocation.id, imageId |-> imageId, port |-> allocation.port,
   containerId |-> data.containerId, idt |-> data.idt, env |-> finalEnv,
   suspended |-> FALSE, hasPorts |-> FALSE, ports |-> <<>>, name |-> 1]

\* A claim that records the owner and leaves the type as it was.
ClaimOwnerOnly(allocs, k, sid) ==
  [allocs EXCEPT ![k].owner = sid]

\* allocation.type = "primary"; allocation.allocationOwnedto = { serverId }
ClaimPrimary(allocs, k, sid) ==
  [allocs EXCEPT ![k].type = "primary", ![k].owner = sid]

\* The statements of the create handler after the node agent answered:
\* written from the node and user objects read before the call.
CreatePersist(nodeId, allocId, userId, imageId, env, nodeRead, userRead, data) ==
  LET sid == fresh.server + 1
      k == AllocIndexById(nodeRead.allocations, allocId)
      serverData == ServerData(sid, userId, nodeRead, nodeId, nodeRead.allocations[k],
                               imageId, FinalEnv(Images[imageId], env), data)
  IN /\ nodes' = UpdateNodeAllocations(nodes, nodeId,
                    ClaimPrimary(nodeRead.allocations, k, sid))
     /\ servers' = Put(servers, sid, serverData)
     /\ users' = [users EXCEPT ![userId].servers = Append(userRead.servers, serverData)]
     /\ fresh' = [fresh EXCEPT !.server = sid]
     /\ resp' = Answer("createServer", 200, "",
                       <<nodeId, allocId, userId, sid, imageId, env,
                         CreatePayload(FinalEnv(Images[imageId], env),
                                       nodeRead.allocations[k])>>, "ok")

\* A create handler that marks the allocation before it calls the node agent
\* and does not take the mark back in its catch block.
CreateFailedKeepsClaim(nodeId, allocId, userId) ==
  /\ resp' = Answer("createServer", 500, "Failed to deploy server",
                    <<nodeId, allocId, userId, Undef>>, "fail")
  /\ nodes' = UpdateNodeAllocations(nodes, nodeId,
                 ClaimPrimary(GetNode(nodeId).allocations,
                              AllocIndexById(GetNode(nodeId).allocations, allocId),
                              fresh.server + 1))
  /\ UNCHANGED <<servers, users, fresh>>

\* The catch block of the create handler: the node agent did not answer with
\* success, nothing was written yet.
CreateFailed(nodeId, allocId, userId) ==
  /\ resp' = Answer("createServer", 500, "Failed to deploy server",
                    <<nodeId, allocId, userId, Undef>>, "fail")
  /\ UNCHANGED <<nodes, servers, users, fresh>>

\* The validation of the create handler: the status it returns before any
\* call to the node agent, or 0 when the request passes.
CreateRejects(nodeId, allocId, userId, imageId) ==
  \* if (!imageId || !nodeId || !allocationId || !name || !userId)
  IF imageId = Undef \/ nodeId = Undef \/ allocId = Undef \/ userId = Undef THEN 400
  ELSE IF ~HasNode(nodeId) THEN 404
  ELSE IF AllocIndexById(GetNode(nodeId).allocations, allocId) = 0 THEN 404
  ELSE IF GetNode(nodeId).allocations[
            AllocIndexById(GetNode(nodeId).allocations, allocId)].owner # Undef THEN 409
  ELSE IF imageId \notin DOMAIN Images THEN 404
  ELSE IF userId \notin DOMAIN users THEN 404
  ELSE 0

\* POST /admin/servers/new and POST /api/v1/servers/new, the call to the
\* node agent answering ok or not.
CreateServer(nodeId, allocId, userId, imageId, env, ok, data) ==
  IF CreateRejects(nodeId, allocId, userId, imageId) # 0 THEN
    /\ resp' = Answer("createServer", CreateRejects(nodeId, allocId, userId, imageId),
                      "rejected", <<nodeId, allocId, userId, Undef>>, "none")
    /\ UNCHANGED <<nodes, servers, users, fresh>>
  ELSE IF ok THEN
    CreatePersist(nodeId, allocId, userId, imageId, env, GetNode(nodeId),
                  users[userId], data)
  ELSE CreateFailed(nodeId, allocId, userId)

\* a.allocationOwnedto = null; a.type = "" for every allocation of the list
\* owned by the server.
FreeAllocations(allocs, sid) ==
  [i \in 1..Len(allocs) |->
     IF allocs[i].owner = sid THEN [allocs[i] EXCEPT !.owner = Undef, !.type = ""]
     ELSE allocs[i]]

OwnsSome(allocs, sid) == \E i \in 1..Len(allocs) : allocs[i].owner = sid

\* owner.servers.filter((s) => s.id !== server.id)
WithoutServer(list, sid) == SelectSeq(list, LAMBDA s : s.id # sid)

\* list("nodes").find(n => n.ip === server.node?.ip || n.id === server.node?.id)
NodeIndexByIpOrId(tbl, server) ==
  LET I == {i \in 1..Len(tbl) : tbl[i].ip = server.node.ip \/ tbl[i].id = server.node.id}
  IN IF I = {} THEN 0 ELSE Least(I)

\* The server delete handler once the server is read: the node lookup, the
\* best-effort call to the node agent (answering ok or not) and the clean-up.
DeleteFound(sid, ok) ==
  IF NodeIndexByIpOrId(nodes, servers[sid]) = 0 THEN
    /\ resp' = Answer("deleteServer", 404, "Node not found", <<sid>>, "none")
    /\ UNCHANGED <<nodes, servers, users, fresh>>
  ELSE
    LET server == servers[sid]
        node == nodes[NodeIndexByIpOrId(nodes, server)]
    IN /\ nodes' = UpdateNodeAllocations(nodes, node.id,
                      FreeAllocations(node.allocations, server.id))
       /\ users' = IF server.userId \in DOMAIN users
                    THEN [users EXCEPT ![server.userId].servers =
                                          WithoutServer(@, server.id)]
                    ELSE users
       /\ servers' = Del(servers, sid)
       /\ resp' = Answer("deleteServer", 200, "", <<sid>>,
                         IF ok THEN "ok" ELSE "fail")
       /\ UNCHANGED fresh

\* A server delete handler that answers success for a server it does not
\* find, after calling the node agent anyway.
DeleteServerIdempotent(sid, ok) ==
  IF sid \notin DOMAIN servers THEN
    /\ resp' = Answer("deleteServer", 200, "", <<sid>>, IF ok THEN "ok" ELSE "fail")
    /\ UNCHANGED <<nodes, servers, users, fresh>>
  ELSE DeleteFound(sid, ok)

\* A delete handler that calls the node agent before it looks the server up.
DeleteServerCallsFirst(sid, ok) ==
  IF sid \notin DOMAIN servers THEN
    /\ resp' = Answer("deleteServer", 404, "Server not found", <<sid>>,
                      IF ok THEN "ok" ELSE "fail")
    /\ UNCHANGED <<nodes, servers, users, fresh>>
  ELSE DeleteFound(sid, ok)

\* DELETE /admin/servers/delete/:id and DELETE /api/v1/servers/delete/:id
DeleteServer(sid, ok) ==
  IF sid \notin DOMAIN servers THEN
    /\ resp' = Answer("deleteServer", 404, "Server not found", <<sid>>, "none")
    /\ UNCHANGED <<nodes, servers, users, fresh>>
  ELSE DeleteFound(sid, ok)

\* The filter of the node delete handler:
\* s.node.id === node.id || s.node.ip === node.ip || s.node.name === node.name
\* with node the object unsqh.get returned.
BoundTo(s, node) ==
  \/ s.node.id = NodeIdField(node)
  \/ s.node.ip = node.ip
  \/ s.node.name = node.name

\* list("nodes").find((n) => n.id === server.node?.id || n.ip === server.node?.ip)
NodeIndexByIdOrIp(tbl, server) ==
  LET I == {i \in 1..Len(tbl) : tbl[i].id = server.node.id \/ tbl[i].ip = server.node.ip}
  IN IF I = {} THEN 0 ELSE Least(I)

\* One turn of the loop of the node delete handler, on the tables db as they
\* are when the turn starts: server is the object listed before the loop, node
\* the object of the node being deleted.  unsqh.update throws when the key is
\* undefined; the turn's try/catch then skips the rest of the turn.
CleanNodeServer(db, server, node) ==
  LET i == NodeIndexByIdOrIp(db.nodes, server)
      serverNode == IF i # 0 THEN db.nodes[i] ELSE node
      key == IF i # 0 THEN db.nodes[i].id ELSE NodeIdField(node)
      changed == OwnsSome(serverNode.allocations, server.id)
  IN IF changed /\ key = Undef THEN db
     ELSE [nodes |-> IF changed
                     THEN UpdateNodeAllocations(db.nodes, key,
                            FreeAllocations(serverNode.allocations, server.id))
                     ELSE db.nodes,
           users |-> IF server.userId \in DOMAIN db.users
                     THEN [db.users EXCEPT ![server.userId].servers =
                                              WithoutServer(@, server.id)]
                     ELSE db.users,
           servers |-> Del(db.servers, server.id)]

\* The worst answer of the node agent so far in a delete loop.
Worse(remote, ok) == IF ok /\ remote # "fail" THEN "ok" ELSE "fail"

\* POST /admin/node/:id/delete and POST /api/v1/node/:id/delete, up to the
\* start of the loop: the node is read and the servers to remove are listed.
DeleteNodeBegin(nid) ==
  /\ job = Idle
  /\ IF ~HasNode(nid) THEN
       /\ resp' = Answer("deleteNode", 404, "Node not found", <<nid>>, "none")
       /\ UNCHANGED job
     ELSE
       /\ job' = [kind |-> "deleteNode", id |-> nid, actor |-> Undef,
                  list |-> SelectSeq(ListServers(servers),
                                     LAMBDA s : BoundTo(s, GetNode(nid))),
                  at |-> 1, node |-> GetNode(nid), remote |-> "none"]
       /\ UNCHANGED resp
  /\ UNCHANGED <<nodes, servers, users, fresh, pending, relay>>

\* for (const server of serversToRemove): one turn, the node agent answering
\* ok or not.
DeleteNodeStep(ok) ==
  /\ job.kind = "deleteNode"
  /\ job.at <= Len(job.list)
  /\ LET db == CleanNodeServer([nodes |-> nodes, servers |-> servers, users |-> users],
                               job.list[job.at], job.node)
     IN /\ nodes' = db.nodes
        /\ servers' = db.servers
        /\ users' = db.users
  /\ job' = [job EXCEPT !.at = @ + 1, !.remote = Worse(@, ok)]
  /\ UNCHANGED <<fresh, resp, pending, relay>>

\* The node delete handler after its loop: unsqh.delete("nodes", id) and the
\* redirect.
DeleteNodeEnd ==
  /\ job.kind = "deleteNode"
  /\ job.at > Len(job.list)
  /\ nodes' = DeleteNodeRecord(nodes, job.id)
  /\ resp' = Answer("deleteNode", 302, "", <<job.id>>, job.remote)
  /\ job' = Idle
  /\ UNCHANGED <<servers, users, fresh, pending, relay>>

\* list("nodes").find((n) => n.ip === server.node.ip)
NodeIndexByIp(tbl, server) ==
  LET I == {i \in 1..Len(tbl) : tbl[i].ip = server.node.ip}
  IN IF I = {} THEN 0 ELSE Least(I)

\* A lookup of the server's node by its ip before its id: the first node on
\* the server's ip, else the node of the server's id.
NodeIndexByIpThenId(tbl, server) ==
  LET I == {i \in 1..Len(tbl) : tbl[i].id = server.node.id}
      J == {i \in 1..Len(tbl) : tbl[i].ip = server.node.ip}
  IN IF J # {} THEN Least(J) ELSE IF I # {} THEN Least(I) ELSE 0

\* list("nodes").find(n => n.id === server.node?.id) ||
\* list("nodes").find(n => n.ip === server.node?.ip)
NodeIndexByIdThenIp(tbl, server) ==
  LET I == {i \in 1..Len(tbl) : tbl[i].id = server.node.id}
      J == {i \in 1..Len(tbl) : tbl[i].ip = server.node.ip}
  IN IF I # {} THEN Least(I) ELSE IF J # {} THEN Least(J) ELSE 0

\* One turn of the loop of the user delete handler; server is the copy
\* embedded in the user being deleted.
CleanUserServer(db, server) ==
  LET i == NodeIndexByIdThenIp(db.nodes, server)
      changed == i # 0 /\ OwnsSome(db.nodes[i].allocations, server.id)
  IN [nodes |-> IF changed
                THEN UpdateNodeAllocations(db.nodes, db.nodes[i].id,
                       FreeAllocations(db.nodes[i].allocations, server.id))
                ELSE db.nodes,
      users |-> db.users,
      servers |-> Del(db.servers, server.id)]

SelfDeleteNever(actor, target) == FALSE

\* if (req.session.userId === targetId)
SelfDelete(actor, target) == actor = target

\* A user delete handler that walks every server of the table.
DeleteUserBeginAll(actor, target) ==
  /\ job = Idle
  /\ IF SelfDelete(actor, target) \/ target \notin DOMAIN users THEN
       /\ resp' = Answer("deleteUser", 400, "refused", <<actor, target>>, "none")
       /\ UNCHANGED job
     ELSE
       /\ job' = [kind |-> "deleteUser", id |-> target, actor |-> actor,
                  list |-> ListServers(servers), at |-> 1, node |-> NoNode,
                  remote |-> "none"]
       /\ UNCHANGED resp
  /\ UNCHANGED <<nodes, servers, users, fresh, pending, relay>>

\* POST /admin/user/:id/delete (actor: the admin's session user), up to the
\* start of the loop over the servers embedded in the user read.
DeleteUserBegin(actor, target) ==
  /\ job = Idle
  /\ IF SelfDelete(actor, target) THEN
       /\ resp' = Answer("deleteUser", 400, "You cannot delete your own account",
                         <<actor, target>>, "none")
       /\ UNCHANGED job
     ELSE IF target \notin DOMAIN users THEN
       /\ resp' = Answer("deleteUser", 404, "User not found", <<actor, target>>, "none")
       /\ UNCHANGED job
     ELSE
       /\ job' = [kind |-> "deleteUser", id |-> target, actor |-> actor,
                  list |-> users[target].servers, at |-> 1, node |-> NoNode,
                  remote |-> "none"]
       /\ UNCHANGED resp
  /\ UNCHANGED <<nodes, servers, users, fresh, pending, relay>>

\* for (const s of userServers): one turn; the node agent is called when the
\* server's node is found, and answers ok or not.
DeleteUserStep(ok) ==
  /\ job.kind = "deleteUser"
  /\ job.at <= Len(job.list)
  /\ LET db == CleanUserServer([nodes |-> nodes, servers |-> servers, users |-> users],
                               job.list[job.at])
     IN /\ nodes' = db.nodes
        /\ servers' = db.servers
        /\ users' = db.users
  /\ job' = [job EXCEPT !.at = @ + 1,
                        !.remote = IF NodeIndexByIdThenIp(nodes, job.list[job.at]) = 0
                                   THEN @ ELSE Worse(@, ok)]
  /\ UNCHANGED <<fresh, resp, pending, relay>>

\* The user delete handler after its loop: unsqh.delete("users", targetId)
\* and the redirect.
DeleteUserEnd ==
  /\ job.kind = "deleteUser"
  /\ job.at > Len(job.list)
  /\ users' = Del(users, job.id)
  /\ resp' = Answer("deleteUser", 302, "", <<job.actor, job.id>>, job.remote)
  /\ job' = Idle
  /\ UNCHANGED <<nodes, servers, fresh, pending, relay>>

\* ------------------------------------------------ network claim and release
\* user.servers?.find((s) => s.id === serverId): index in the user's list, or 0
OwnCopyIndex(userId, sid) ==
  LET I == {i \in 1..Len(users[userId].servers) : users[userId].servers[i].id = sid}
  IN IF I = {} THEN 0 ELSE Least(I)

\* getServerForUser(userId, serverId) is not null
HasServerForUser(userId, sid) ==
  /\ userId \in DOMAIN users
  /\ \/ OwnCopyIndex(userId, sid) # 0
     \/ users[userId].admin /\ sid \in DOMAIN servers

\* getServerForUser(userId, serverId): the copy in the user's own list, else,
\* for an admin, the canonical record.
GetServerForUser(userId, sid) ==
  IF OwnCopyIndex(userId, sid) # 0 THEN users[userId].servers[OwnCopyIndex(userId, sid)]
  ELSE servers[sid]

\* A middleware that does not look at the flag.
WithServerNoFlag(userId, sid) ==
  IF ~HasServerForUser(userId, sid) THEN "throw" ELSE "next"

\* withServer: the middleware in front of every /server route.  It reads
\* server.id before it tests server, so a request for a server the user
\* cannot reach throws; a server whose flag is set is refused.
WithServer(userId, sid) ==
  IF ~HasServerForUser(userId, sid) THEN "throw"
  ELSE IF GetServerForUser(userId, sid).suspended THEN "SUSPENDED"
  ELSE "next"

\* node.allocations.find((a) => a.port === PORT)
AllocIndexByPort(allocs, port) ==
  LET I == {i \in 1..Len(allocs) : allocs[i].port = port}
  IN IF I = {} THEN 0 ELSE Least(I)

\* node.allocations.find((a) => a.port === PORT && a.allocationOwnedto?.serverId === server.id)
OwnedAllocIndexByPort(allocs, port, sid) ==
  LET I == {i \in 1..Len(allocs) : allocs[i].port = port /\ allocs[i].owner = sid}
  IN IF I = {} THEN 0 ELSE Least(I)

\* node.allocations.some((a) => a.type === "primary" && a.allocationOwnedto?.serverId === server.id)
HasPrimary(allocs, sid) ==
  \E i \in 1..Len(allocs) : allocs[i].type = "primary" /\ allocs[i].owner = sid

\* user.servers.map((s) => (s.id === server.id ? server : s))
ReplaceServer(list, server) ==
  [i \in 1..Len(list) |-> IF list[i].id = server.id THEN server ELSE list[i]]

\* unsqh.put("servers", server.id, server); user.servers = user.servers.map(...);
\* unsqh.put("users", user.id, user) with user the session user's record as
\* the handler read it.
PutServerAndCopy(user, server) ==
  /\ servers' = Put(servers, server.id, server)
  /\ users' = Put(users, user.id, [user EXCEPT !.servers = ReplaceServer(@, server)])

\* The checks of the add route before its call to the node agent: the reply
\* they end the request with, or status 0 when the request passes.
AddRejects(actor, sid, port) ==
  IF WithServer(actor, sid) = "throw" THEN [status |-> 500, err |-> "no server"]
  ELSE IF WithServer(actor, sid) = "SUSPENDED" THEN [status |-> 302, err |-> "SUSPENDED"]
  ELSE IF NodeIndexByIp(nodes, GetServerForUser(actor, sid)) = 0
  THEN [status |-> 404, err |-> "Node not found"]
  ELSE
    LET server == GetServerForUser(actor, sid)
        node == nodes[NodeIndexByIp(nodes, server)]
        k == AllocIndexByPort(node.allocations, port)
    IN IF k = 0 THEN [status |-> 302, err |-> "invalid_allocation"]
       ELSE IF node.allocations[k].owner # Undef
       THEN [status |-> 302, err |-> "allocation_taken"]
       ELSE IF node.allocations[k].type = "primary"
               /\ HasPrimary(node.allocations, server.id)
       THEN [status |-> 302, err |-> "primary_exists"]
       ELSE [status |-> 0, err |-> ""]

\* if (!server.port || allocation.type === "primary") allocation.type = "primary"
AddIsPrimary(server, node, port) ==
  server.port = Undef \/ node.allocations[AllocIndexByPort(node.allocations, port)].type = "primary"

\* The node's list with the allocation of the port claimed for the server.
AddClaimed(server, node, port) ==
  LET k == AllocIndexByPort(node.allocations, port)
  IN [node.allocations EXCEPT
        ![k].owner = server.id,
        ![k].type = IF AddIsPrimary(server, node, port) THEN "primary" ELSE @]

\* The server object of the add route after its assignments.
AddedServer(server, node, port, cid) ==
  LET held == IF server.hasPorts THEN server.ports ELSE <<>>
  IN [server EXCEPT
        !.hasPorts = TRUE,
        !.ports = IF Includes(held, port) THEN held ELSE Append(held, port),
        !.port = IF AddIsPrimary(server, node, port) THEN port ELSE @,
        !.containerId = cid]

\* The statements of the add route after the node agent answered, on the
\* user, server and node objects read before the call.  The audit entry the
\* route adds last changes no field but auditLogs, which no handler reads to
\* decide anything: it is recorded by AddPersistLogged, in the audit
\* specification, and left out here and in the other network routes.
AddPersist(user, server, node, port, cid) ==
  /\ nodes' = UpdateNodeAllocations(nodes, node.id, AddClaimed(server, node, port))
  /\ PutServerAndCopy(user, AddedServer(server, node, port, cid))
  /\ resp' = Answer("addAllocationToServer", 302, "", <<user.id, server.id, port>>, "ok")
  /\ UNCHANGED fresh

\* A catch block reached after the allocation was stored as claimed.
AddFailedAfterClaim(actor, sid, port) ==
  LET server == GetServerForUser(actor, sid)
      node == nodes[NodeIndexByIp(nodes, server)]
      k == AllocIndexByPort(node.allocations, port)
  IN /\ nodes' = UpdateNodeAllocations(nodes, node.id,
                    [node.allocations EXCEPT ![k].owner = server.id])
     /\ resp' = Answer("addAllocationToServer", 302, "failed", <<actor, sid, port>>, "fail")
     /\ UNCHANGED <<servers, users, fresh>>

\* The catch block of the add route.
AddFailed(actor, sid, port) ==
  /\ resp' = Answer("addAllocationToServer", 302, "failed", <<actor, sid, port>>, "fail")
  /\ UNCHANGED <<nodes, servers, users, fresh>>

\* GET /server/network/:id/add/:port, the call to the node agent answering ok
\* or not.
AddAllocationToServer(actor, sid, port, ok, cid) ==
  IF AddRejects(actor, sid, port).status # 0 THEN
    /\ resp' = Answer("addAllocationToServer", AddRejects(actor, sid, port).status,
                      AddRejects(actor, sid, port).err, <<actor, sid, port>>, "none")
    /\ UNCHANGED <<nodes, servers, users, fresh>>
  ELSE IF ok THEN
    AddPersist(users[actor], GetServerForUser(actor, sid),
               nodes[NodeIndexByIp(nodes, GetServerForUser(actor, sid))], port, cid)
  ELSE AddFailed(actor, sid, port)

\* a.type = a.port === PORT ? "primary" : "secondary" for every allocation
\* of the list owned by the server
FlipPrimary(allocs, sid, port) ==
  [i \in 1..Len(allocs) |->
     IF allocs[i].owner = sid
     THEN [allocs[i] EXCEPT !.type = IF allocs[i].port = port THEN "primary"
                                     ELSE "secondary"]
     ELSE allocs[i]]

\* POST /server/network/:id/setprimary/:port.  server.ports.includes throws
\* when the server object has no ports field: the node table is already
\* written then, the server and the user are not.
SetPrimary(actor, sid, port, ok, cid) ==
  IF WithServer(actor, sid) = "throw" THEN
    /\ resp' = Answer("setPrimary", 500, "no server", <<actor, sid, port>>, "none")
    /\ UNCHANGED <<nodes, servers, users, fresh>>
  ELSE IF WithServer(actor, sid) = "SUSPENDED" THEN
    /\ resp' = Answer("setPrimary", 302, "SUSPENDED", <<actor, sid, port>>, "none")
    /\ UNCHANGED <<nodes, servers, users, fresh>>
  ELSE IF NodeIndexByIp(nodes, GetServerForUser(actor, sid)) = 0 THEN
    /\ resp' = Answer("setPrimary", 404, "Node not found", <<actor, sid, port>>, "none")
    /\ UNCHANGED <<nodes, servers, users, fresh>>
  ELSE
    LET server == GetServerForUser(actor, sid)
        node == nodes[NodeIndexByIp(nodes, server)]
        k == OwnedAllocIndexByPort(node.allocations, port, server.id)
        after == [server EXCEPT
                    !.port = port,
                    !.ports = IF Includes(@, port) THEN @ ELSE Append(@, port),
                    !.containerId = cid]
    IN IF k = 0 THEN
         /\ resp' = Answer("setPrimary", 302, "allocation_not_owned",
                           <<actor, sid, port>>, "none")
         /\ UNCHANGED <<nodes, servers, users, fresh>>
       ELSE IF ~ok THEN
         /\ resp' = Answer("setPrimary", 302, "failed", <<actor, sid, port>>, "fail")
         /\ UNCHANGED <<nodes, servers, users, fresh>>
       ELSE IF ~server.hasPorts THEN
         /\ nodes' = UpdateNodeAllocations(nodes, node.id,
                        FlipPrimary(node.allocations, server.id, port))
         /\ resp' = Answer("setPrimary", 302, "failed", <<actor, sid, port>>, "ok")
         /\ UNCHANGED <<servers, users, fresh>>
       ELSE
         /\ nodes' = UpdateNodeAllocations(nodes, node.id,
                        FlipPrimary(node.allocations, server.id, port))
         /\ PutServerAndCopy(users[actor], after)
         /\ resp' = Answer("setPrimary", 302, "", <<actor, sid, port>>, "ok")
         /\ UNCHANGED fresh

\* server.ports = server.ports?.filter((p) => p !== PORT) || []
WithoutPort(server, port) ==
  IF server.hasPorts THEN SelectSeq(server.ports, LAMBDA p : p # port) ELSE <<>>

\* POST /server/network/:id/remove/:port
RemoveAllocationFromServer(actor, sid, port, ok, cid) ==
  IF WithServer(actor, sid) = "throw" THEN
    /\ resp' = Answer("removeAllocationFromServer", 500, "no server",
                      <<actor, sid, port>>, "none")
    /\ UNCHANGED <<nodes, servers, users, fresh>>
  ELSE IF WithServer(actor, sid) = "SUSPENDED" THEN
    /\ resp' = Answer("removeAllocationFromServer", 302, "SUSPENDED",
                      <<actor, sid, port>>, "none")
    /\ UNCHANGED <<nodes, servers, users, fresh>>
  ELSE IF NodeIndexByIp(nodes, GetServerForUser(actor, sid)) = 0 THEN
    /\ resp' = Answer("removeAllocationFromServer", 404, "Node not found",
                      <<actor, sid, port>>, "none")
    /\ UNCHANGED <<nodes, servers, users, fresh>>
  ELSE
    LET server == GetServerForUser(actor, sid)
        node == nodes[NodeIndexByIp(nodes, server)]
        k == OwnedAllocIndexByPort(node.allocations, port, server.id)
        left == WithoutPort(server, port)
        \* if (server.port === PORT) server.port = server.ports[0] || null
        after == [server EXCEPT
                    !.hasPorts = TRUE,
                    !.ports = left,
                    !.port = IF @ = port
                             THEN (IF left = <<>> THEN Undef ELSE left[1])
                             ELSE @,
                    !.containerId = cid]
    IN IF k = 0 THEN
         /\ resp' = Answer("removeAllocationFromServer", 302, "allocation_not_owned",
                           <<actor, sid, port>>, "none")
         /\ UNCHANGED <<nodes, servers, users, fresh>>
       ELSE IF ~ok THEN
         /\ resp' = Answer("removeAllocationFromServer", 302, "failed",
                           <<actor, sid, port>>, "fail")
         /\ UNCHANGED <<nodes, servers, users, fresh>>
       ELSE
         \* delete allocation.allocationOwnedto: the type stays
         /\ nodes' = UpdateNodeAllocations(nodes, node.id,
                        [node.allocations EXCEPT ![k].owner = Undef])
         /\ PutServerAndCopy(users[actor], after)
         /\ resp' = Answer("removeAllocationFromServer", 302, "",
                           <<actor, sid, port>>, "ok")
         /\ UNCHANGED fresh

\* ------------------------------------------------ the lifecycle on a fleet
\* A fleet an operator set up with the node create and allocation add
\* handlers: MaxNodes nodes, each with one allocation per port in
\* 1..MaxPort on its own ip (range "1-MaxPort"), all of them free.  Node 1
\* has ip 1 and name 1; the other nodes take any ip and name, and each node
\* was made by the admin page or by the API.
FleetNode(n, ip, name, viaApi) ==
  [id |-> n, idField |-> viaApi, name |-> name, ip |-> ip, status |-> "offline",
   allocations |-> AddBatches(<<>>, ip, RangePorts(1, MaxPort), 1, BatchSize,
                              (n - 1) * MaxPort, 0)]

Fleet(ips, names, vias) ==
  /\ \E ip \in [1..MaxNodes -> ips], name \in [1..MaxNodes -> names],
        viaApi \in [1..MaxNodes -> vias] :
        /\ ip[1] = 1
        /\ name[1] = 1
        /\ nodes = [n \in 1..MaxNodes |-> FleetNode(n, ip[n], name[n], viaApi[n])]
  /\ servers = <<>>
  /\ users = InitUsers
  /\ fresh = [node |-> MaxNodes, alloc |-> MaxNodes * MaxPort, server |-> 0]
  /\ resp = Reply("none", 0, "")
  /\ job = Idle
  /\ pending = <<>>
  /\ relay = NoRelay

InitFleet == Fleet(IPs, Names, BOOLEAN)

FleetAllocIds == 1..(MaxNodes * MaxPort)
ServerIds == 1..MaxServers
UserIds == 1..MaxUsers
Admins == {u \in DOMAIN users : users[u].admin}

\* The requests of the lifecycle manager, one after the other: a request is
\* taken when the one before it has been answered.
NextLifecycle ==
  \/ \E nid \in NodeIds, aid \in FleetAllocIds, uid \in UserIds, ok \in BOOLEAN :
        /\ Serial
        /\ fresh.server < MaxServers
        /\ CreateServer(nid, aid, uid, 1, NoEnv, ok, FirstAnswer)
  \/ \E sid \in ServerIds, ok \in BOOLEAN : Serial /\ DeleteServer(sid, ok)
  \/ \E nid \in NodeIds : DeleteNodeBegin(nid)
  \/ \E ok \in BOOLEAN : DeleteNodeStep(ok)
  \/ DeleteNodeEnd
  \/ \E actor \in Admins, target \in UserIds : DeleteUserBegin(actor, target)
  \/ \E ok \in BOOLEAN : DeleteUserStep(ok)
  \/ DeleteUserEnd

SpecLifecycle == InitFleet /\ [][NextLifecycle]_vars

\* The node agent answers every call, with success or with an error: a delete
\* loop that started runs to its end.
SpecLifecycleFair ==
  /\ SpecLifecycle
  /\ WF_vars(\E ok \in BOOLEAN : DeleteNodeStep(ok))
  /\ WF_vars(DeleteNodeEnd)
  /\ WF_vars(\E ok \in BOOLEAN : DeleteUserStep(ok))
  /\ WF_vars(DeleteUserEnd)

\* ------------------------------------------- the network routes on a fleet
\* The fleet with every node named 1 and made by the admin page.
InitNetwork == Fleet(IPs, {1}, {FALSE})

NetServerIds == 1..MaxNetServers

NextNetwork ==
  \/ \E nid \in NodeIds, aid \in FleetAllocIds, uid \in UserIds, ok \in BOOLEAN :
        /\ Serial
        /\ fresh.server < MaxNetServers
        /\ CreateServer(nid, aid, uid, 1, NoEnv, ok, FirstAnswer)
  \/ \E sid \in NetServerIds, ok \in BOOLEAN : Serial /\ DeleteServer(sid, ok)
  \/ \E actor \in DOMAIN users, sid \in NetServerIds, port \in Ports, ok \in BOOLEAN :
        Serial /\ AddAllocationToServer(actor, sid, port, ok, 1)
  \/ \E actor \in DOMAIN users, sid \in NetServerIds, port \in Ports, ok \in BOOLEAN :
        Serial /\ SetPrimary(actor, sid, port, ok, 1)
  \/ \E actor \in DOMAIN users, sid \in NetServerIds, port \in Ports, ok \in BOOLEAN :
        Serial /\ RemoveAllocationFromServer(actor, sid, port, ok, 1)

SpecNetwork == InitNetwork /\ [][NextNetwork]_vars

\* ------------------------------------------------ claim requests in flight
\* create and add wait for the node agent between their checks and their
\* writes; other requests are served meanwhile.  A request in flight holds
\* the objects it read before the call.
NoServer ==
  [id |-> Undef, userId |-> Undef,
   node |-> [id |-> Undef, ip |-> Undef, name |-> Undef],
   allocationId |-> Undef, imageId |-> Undef, port |-> Undef,
   containerId |-> Undef, idt |-> Undef, env |-> NoEnv, suspended |-> FALSE,
   hasPorts |-> FALSE, ports |-> <<>>, name |-> Undef]

RemoveAt(s, i) == SubSeq(s, 1, i - 1) \o SubSeq(s, i + 1, Len(s))

\* The create handler up to its await axios.post(...)
CreateBegin(nodeId, allocId, userId) ==
  /\ IF CreateRejects(nodeId, allocId, userId, 1) # 0 THEN
       /\ resp' = Answer("createServer", CreateRejects(nodeId, allocId, userId, 1),
                         "rejected", <<nodeId, allocId, userId, Undef>>, "none")
       /\ UNCHANGED pending
     ELSE
       /\ pending' = Append(pending,
                       [op |-> "create", nodeId |-> nodeId, allocId |-> allocId,
                        userId |-> userId, port |-> Undef, node |-> GetNode(nodeId),
                        user |-> users[userId], server |-> NoServer])
       /\ UNCHANGED resp
  /\ UNCHANGED <<nodes, servers, users, fresh, job, relay>>

\* The create handler from the node agent's answer on.
CreateEnd(i, ok) ==
  /\ i \in 1..Len(pending)
  /\ pending[i].op = "create"
  /\ IF ok THEN CreatePersist(pending[i].nodeId, pending[i].allocId, pending[i].userId,
                              1, NoEnv, pending[i].node, pending[i].user, FirstAnswer)
     ELSE CreateFailed(pending[i].nodeId, pending[i].allocId, pending[i].userId)
  /\ pending' = RemoveAt(pending, i)
  /\ UNCHANGED <<job, relay>>

\* The add route up to its await axios.post(...)
AddBegin(actor, sid, port) ==
  /\ IF AddRejects(actor, sid, port).status # 0 THEN
       /\ resp' = Answer("addAllocationToServer", AddRejects(actor, sid, port).status,
                         AddRejects(actor, sid, port).err, <<actor, sid, port>>, "none")
       /\ UNCHANGED pending
     ELSE
       /\ pending' = Append(pending,
                       [op |-> "add",
                        nodeId |-> nodes[NodeIndexByIp(nodes,
                                     GetServerForUser(actor, sid))].id,
                        allocId |-> Undef, userId |-> actor, port |-> port,
                        node |-> nodes[NodeIndexByIp(nodes, GetServerForUser(actor, sid))],
                        user |-> users[actor], server |-> GetServerForUser(actor, sid)])
       /\ UNCHANGED resp
  /\ UNCHANGED <<nodes, servers, users, fresh, job, relay>>

\* The add route from the node agent's answer on.
AddEnd(i, ok) ==
  /\ i \in 1..Len(pending)
  /\ pending[i].op = "add"
  /\ IF ok THEN AddPersist(pending[i].user, pending[i].server, pending[i].node,
                           pending[i].port, 1)
     ELSE AddFailed(pending[i].userId, pending[i].server.id, pending[i].port)
  /\ pending' = RemoveAt(pending, i)
  /\ UNCHANGED <<job, relay>>

NextRace ==
  \/ \E nid \in NodeIds, aid \in FleetAllocIds, uid \in UserIds :
        /\ Len(pending) < MaxInflight
        /\ fresh.server + Len(pending) < MaxServers
        /\ CreateBegin(nid, aid, uid)
  \/ \E i \in 1..MaxInflight, ok \in BOOLEAN : CreateEnd(i, ok)
  \/ \E actor \in DOMAIN users, sid \in NetServerIds, port \in Ports :
        /\ Len(pending) < MaxInflight
        /\ AddBegin(actor, sid, port)
  \/ \E i \in 1..MaxInflight, ok \in BOOLEAN : AddEnd(i, ok)

SpecRace == InitNetwork /\ [][NextRace]_vars

\* ----------------------------------------------------- the realtime relay
\* POST /admin/node/:id/edit: unsqh.update("nodes", id, { name, ram, core,
\* ip, port }); the servers that name the node keep the ip they copied.
EditNode(nid, name, ip) ==
  /\ IF ~HasNode(nid) THEN
       /\ resp' = Answer("editNode", 302, "no node", <<nid>>, "none")
       /\ UNCHANGED nodes
     ELSE
       /\ nodes' = [nodes EXCEPT ![NodeIndex(nid)].name = name,
                                 ![NodeIndex(nid)].ip = ip]
       /\ resp' = Answer("editNode", 302, "", <<nid>>, "none")
  /\ UNCHANGED <<servers, users, fresh>>

\* crypto.randomBytes(32) of the node create handler: one secret per node,
\* written once.
NodeKey(nid) == nid

\* The frames the relay writes to the node agent.
AuthFrame(key) == [event |-> "auth", payload |-> [key |-> key]]
SubscribeFrame(event, containerId) ==
  [event |-> event, payload |-> [containerId |-> containerId]]

\* A relay that names the container in its subscribe frame.
SubscribedContainer(serverData) == serverData.containerId

\* The containerId field of the subscribe frame: serverData.idt
SubscribedId(serverData) == serverData.idt

\* event of the subscribe frame: "logs" on /console/:id, "stats" on /stats/:id
SubscribeEvent(kind) == IF kind = "console" THEN "logs" ELSE "stats"

\* What a client writes on its stream.
ClientFrames == {[event |-> "input", payload |-> [text |-> 1]]}

\* What the node agent writes on its stream: text that is no JSON, the JSON
\* value null, and objects with an event and with or without a payload.
NodeFrames ==
  {[form |-> "text", event |-> "", payload |-> Undef],
   [form |-> "null", event |-> "", payload |-> Undef]}
  \cup [form : {"object"}, event : {"stats", "logs"}, payload : 0..MaxPayload]

\* The checks of both relay handlers before new WebSocket(...): the reason
\* the client stream is closed with, "" when the request passes, and "throw"
\* when the session's user record is gone (user.id of null).
RelayRejects(actor, sid) ==
  IF actor = Undef THEN "Unauthorized"
  ELSE IF sid \notin DOMAIN servers THEN "Forbidden"
  ELSE IF actor \notin DOMAIN users THEN "throw"
  ELSE IF servers[sid].userId # users[actor].id THEN "Forbidden"
  ELSE IF NodeIndexByIp(nodes, servers[sid]) = 0 THEN "Node not found"
  ELSE ""

\* app.ws("/console/:id") and app.ws("/stats/:id") up to the registration
\* of the listeners.  A TypeError in the async handler is a rejected promise
\* nobody awaits: the runtime ends the process (the client stream goes with
\* it) or reports it and goes on with the client stream open and unpaired.
RelayRequest(kind, actor, sid, crash) ==
  /\ relay.client # "open"
  /\ relay.node \in {"none", "closed"}
  /\ LET why == RelayRejects(actor, sid)
         start == [NoRelay EXCEPT !.n = relay.n + 1, !.kind = kind,
                                  !.actor = actor, !.sid = sid]
     IN IF why = "throw" THEN
          relay' = [start EXCEPT !.client = IF crash THEN "closed" ELSE "open",
                                 !.reason = IF crash THEN "crash" ELSE ""]
        ELSE IF why # "" THEN
          relay' = [start EXCEPT !.client = "closed", !.reason = why]
        ELSE
          LET node == nodes[NodeIndexByIp(nodes, servers[sid])]
          IN relay' = [start EXCEPT !.client = "open", !.paired = TRUE,
                                    !.node = "connecting", !.nodeId = node.id,
                                    !.key = NodeKey(node.id),
                                    !.idt = SubscribedId(servers[sid])]
  /\ UNCHANGED <<nodes, servers, users, fresh, resp, job, pending>>

\* nodeWs.on("open")
NodeOpen ==
  /\ relay.node = "connecting"
  /\ relay' = [relay EXCEPT
                 !.node = "open",
                 !.sent = <<AuthFrame(relay.key),
                            SubscribeFrame(SubscribeEvent(relay.kind), relay.idt)>>]
  /\ UNCHANGED <<nodes, servers, users, fresh, resp, job, pending>>

\* A stats handler that unwraps every object frame, whatever its event.
StatsForwardAny(frame) ==
  IF frame.form # "object" THEN <<>>
  ELSE IF frame.payload = Undef THEN <<>>
  ELSE <<[form |-> "payload", data |-> frame.payload]>>

\* JSON.parse(dataToSend) followed by parsed.event and by
\* ws.send(JSON.stringify(parsed.payload)): what the stats handler hands to
\* the client for a frame, or <<>> when a statement of the inner try throws
\* (no JSON, event of null, send of undefined) or the event is another one.
StatsForward(frame) ==
  IF frame.form # "object" THEN <<>>
  ELSE IF frame.event # "stats" THEN <<>>
  ELSE IF frame.payload = Undef THEN <<>>
  ELSE <<[form |-> "payload", data |-> frame.payload]>>

\* ws.send(dataToSend) of the console handler
ConsoleForward(frame) == <<[form |-> "frame", data |-> frame]>>

\* nodeWs.on("message")
NodeMessage(frame) ==
  /\ relay.node = "open"
  /\ relay' = [relay EXCEPT
                 !.seen = @ + 1,
                 !.last = frame,
                 !.got = IF relay.client # "open" THEN @
                         ELSE IF relay.kind = "console" THEN @ \o ConsoleForward(frame)
                         ELSE @ \o StatsForward(frame)]
  /\ UNCHANGED <<nodes, servers, users, fresh, resp, job, pending>>

\* nodeWs.on("close") and nodeWs.on("error"): the connection attempt failed,
\* the node agent closed or the stream broke.  The console handler writes the
\* error to the client before it closes it.
NodeEnds(how) ==
  /\ relay.node \in {"connecting", "open"}
  /\ relay' = [relay EXCEPT
                 !.node = "closed",
                 !.client = IF @ = "open" THEN "closed" ELSE @,
                 !.reason = IF relay.client = "open" THEN "node " \o how ELSE @,
                 !.got = IF relay.client = "open" /\ how = "error"
                            /\ relay.kind = "console"
                         THEN Append(@, [form |-> "error", data |-> Undef])
                         ELSE @]
  /\ UNCHANGED <<nodes, servers, users, fresh, resp, job, pending>>

\* nodeWs.on("close") after nodeWs.close(): the closing handshake is over.
NodeClosed ==
  /\ relay.node = "closing"
  /\ relay' = [relay EXCEPT !.node = "closed",
                            !.client = IF @ = "open" THEN "closed" ELSE @]
  /\ UNCHANGED <<nodes, servers, users, fresh, resp, job, pending>>

\* ws.on("message"): no listener when the handler threw.
ClientMessage(msg) ==
  /\ relay.client = "open"
  /\ relay' = [relay EXCEPT
                 !.sent = IF relay.paired /\ relay.node = "open" THEN Append(@, msg)
                          ELSE @]
  /\ UNCHANGED <<nodes, servers, users, fresh, resp, job, pending>>

\* ws.on("close") and ws.on("error"): the client left or its stream broke.
ClientEnds(how) ==
  /\ relay.client = "open"
  /\ relay' = [relay EXCEPT
                 !.client = "closed",
                 !.reason = "client " \o how,
                 !.node = IF relay.paired /\ @ = "open" THEN "closing" ELSE @]
  /\ UNCHANGED <<nodes, servers, users, fresh, resp, job, pending>>

\* The sessions: a session names the user who logged in, and outlives the
\* user record (the user delete handler leaves table "sessions" alone).
Sessions == {Undef} \cup (1..MaxUsers)

NextRelay ==
  \/ \E nid \in NodeIds, uid \in UserIds :
        /\ Serial
        /\ fresh.server < MaxNetServers
        /\ CreateServer(nid, GetNode(nid).allocations[1].id, uid, 1, NoEnv, TRUE,
                        FirstAnswer)
  \/ \E nid \in NodeIds, ip \in IPs : Serial /\ EditNode(nid, 1, ip)
  \/ \E actor \in Admins, target \in UserIds : DeleteUserBegin(actor, target)
  \/ \E ok \in BOOLEAN : DeleteUserStep(ok)
  \/ DeleteUserEnd
  \/ \E kind \in {"console", "stats"}, actor \in Sessions, sid \in NetServerIds,
        crash \in BOOLEAN :
        /\ relay.n < MaxRelays
        /\ RelayRequest(kind, actor, sid, crash)
  \/ NodeOpen
  \/ \E frame \in NodeFrames : relay.seen < MaxFrames /\ NodeMessage(frame)
  \/ \E how \in {"close", "error"} : NodeEnds(how)
  \/ NodeClosed
  \/ \E msg \in ClientFrames : Len(relay.sent) < MaxSent /\ ClientMessage(msg)
  \/ \E how \in {"close", "error"} : ClientEnds(how)

SpecRelay == InitNetwork /\ [][NextRelay]_vars

\* A connection attempt ends, with the stream open or with an error, and a
\* closing handshake ends (the WebSocket library times both); the node agent
\* and the client close their side when they like, or never.
SpecRelayFair ==
  /\ SpecRelay
  /\ WF_vars(NodeOpen \/ (relay.node = "connecting" /\ NodeEnds("error")))
  /\ WF_vars(NodeClosed)

\* --------------------------------------------- suspend, unsuspend and edit
\* A suspend handler that leaves the owner's list as it read it.
KeepCopy(list, sid, flag) == list

\* userServer = user.servers.find((s) => s.id === server.id);
\* if (userServer) userServer.suspended = flag
SetSuspendedCopy(list, sid, flag) ==
  LET I == {i \in 1..Len(list) : list[i].id = sid}
  IN IF I = {} THEN list ELSE [list EXCEPT ![Least(I)].suspended = flag]

\* The statements both handlers share: unsqh.update("servers", id,
\* { suspended }) and, when the owner's record is there,
\* unsqh.update("users", user.id, { servers: user.servers }).
WriteSuspended(sid, flag) ==
  /\ servers' = [servers EXCEPT ![sid].suspended = flag]
  /\ users' = IF servers[sid].userId \in DOMAIN users
              THEN [users EXCEPT ![servers[sid].userId].servers =
                                   SetSuspendedCopy(@, sid, flag)]
              ELSE users

\* POST /admin/servers/suspend/:id.  The variant with a remote stop calls the
\* node agent only when the server's node object carries a key and catches
\* what the call throws.
Suspend(sid, ok) ==
  /\ IF sid \notin DOMAIN servers THEN
       /\ resp' = Answer("suspend", 404, "Server not found", <<sid>>, "none")
       /\ UNCHANGED <<servers, users>>
     ELSE
       /\ WriteSuspended(sid, TRUE)
       /\ resp' = Answer("suspend", 200, "", <<sid>>,
                         IF "key" \in DOMAIN servers[sid].node
                            /\ servers[sid].containerId # Undef
                         THEN (IF ok THEN "ok" ELSE "fail") ELSE "none")
  /\ UNCHANGED <<nodes, fresh>>

\* POST /admin/servers/unsuspend/:id
Unsuspend(sid) ==
  /\ IF sid \notin DOMAIN servers THEN
       /\ resp' = Answer("unsuspend", 404, "Server not found", <<sid>>, "none")
       /\ UNCHANGED <<servers, users>>
     ELSE
       /\ WriteSuspended(sid, FALSE)
       /\ resp' = Answer("unsuspend", 200, "", <<sid>>, "none")
  /\ UNCHANGED <<nodes, fresh>>

\* An edit whose merge lets the stored value win over the patch.
MergedEnvKeepsStored(existing, patch, image) ==
  LET merged == [k \in DOMAIN existing \cup DOMAIN patch |->
                   IF k \in DOMAIN existing THEN existing[k] ELSE patch[k]]
  IN [k \in DOMAIN merged \cup DOMAIN image.envs |->
        IF k \in DOMAIN merged THEN merged[k] ELSE image.envs[k]]

\* mergedEnv = { ...(server.env || {}), ...(newEnv || {}) };
\* for (const key of Object.keys(image.envs || {}))
\*   if (mergedEnv[key] === undefined) mergedEnv[key] = image.envs[key]
MergedEnv(existing, patch, image) ==
  LET merged == [k \in DOMAIN existing \cup DOMAIN patch |->
                   IF k \in DOMAIN patch THEN patch[k] ELSE existing[k]]
  IN [k \in DOMAIN merged \cup DOMAIN image.envs |->
        IF k \in DOMAIN merged THEN merged[k] ELSE image.envs[k]]

\* The checks of the edit handler before its call to the node agent: the
\* reply they end the request with, or status 0 when the request passes.
EditRejects(sid, imageId) ==
  IF sid \notin DOMAIN servers THEN [status |-> 404, err |-> "Server not found"]
  ELSE IF NodeIndexByIp(nodes, servers[sid]) = 0
  THEN [status |-> 404, err |-> "Node not found"]
  ELSE IF imageId # Undef /\ imageId \notin DOMAIN Images
  THEN [status |-> 404, err |-> "Image not found"]
  ELSE [status |-> 0, err |-> ""]

\* The payload that an edit posts to the node agent: the stored task id, the
\* merged environment and the stored port. The body's port is not read
\* (core.js destructures it inside a comment).
EditPayloadBodyPort(server, mergedEnv, bodyPort) ==
  [idt |-> server.idt, env |-> mergedEnv,
   port |-> IF bodyPort # Undef THEN bodyPort ELSE server.port]

EditPayload(server, mergedEnv, bodyPort) ==
  [idt |-> server.idt, env |-> mergedEnv, port |-> server.port]

NoPayload == [idt |-> Undef, env |-> NoEnv, port |-> Undef]

\* POST /admin/edit/:serverId and POST /api/v1/edit/:serverId, with or
\* without an imageId and a port in the body, the call to the node agent
\* answering with a container id or failing.
EditServer(sid, imageId, newEnv, bodyPort, ok, cid) ==
  /\ IF EditRejects(sid, imageId).status # 0 THEN
       /\ resp' = Answer("editServer", EditRejects(sid, imageId).status,
                         EditRejects(sid, imageId).err,
                         <<sid, imageId, newEnv, bodyPort, NoPayload>>, "none")
       /\ UNCHANGED <<servers, users>>
     ELSE
       LET server == servers[sid]
           image == Images[IF imageId # Undef THEN imageId ELSE server.imageId]
           mergedEnv == MergedEnv(server.env, newEnv, image)
           payload == EditPayload(server, mergedEnv, bodyPort)
           after == [server EXCEPT !.env = mergedEnv,
                                   !.imageId = image.id,
                                   !.containerId = cid,
                                   !.port = server.port]
       IN IF ~ok THEN
            /\ resp' = Answer("editServer", 500, "Failed to edit server",
                              <<sid, imageId, newEnv, bodyPort, payload>>, "fail")
            /\ UNCHANGED <<servers, users>>
          ELSE
            /\ servers' = Put(servers, sid, after)
            /\ users' = IF server.userId \in DOMAIN users
                        THEN Put(users, server.userId,
                                 [users[server.userId] EXCEPT
                                    !.servers = ReplaceServer(@, after)])
                        ELSE users
            /\ resp' = Answer("editServer", 200, "",
                              <<sid, imageId, newEnv, bodyPort, payload>>, "ok")
  /\ UNCHANGED <<nodes, fresh>>

\* The admin's server pages on the fleet, with the add route that makes a
\* canonical record and its owner's copy differ.
NextAdmin ==
  \/ \E nid \in NodeIds, uid \in UserIds, imageId \in ImageIds, env \in Envs,
        data \in NodeAnswers :
        /\ Serial
        /\ fresh.server < MaxNetServers
        /\ CreateServer(nid, GetNode(nid).allocations[1].id, uid, imageId, env, TRUE,
                        data)
  \/ \E actor \in Admins, sid \in NetServerIds, port \in Ports, cid \in ContainerIds :
        Serial /\ AddAllocationToServer(actor, sid, port, TRUE, cid)
  \/ \E sid \in NetServerIds, ok \in BOOLEAN : Serial /\ Suspend(sid, ok)
  \/ \E sid \in NetServerIds : Serial /\ Unsuspend(sid)
  \/ \E sid \in NetServerIds, imageId \in ImageIds \cup {Undef}, newEnv \in Envs,
        ok \in BOOLEAN, cid \in ContainerIds :
        Serial /\ EditServer(sid, imageId, newEnv, Undef, ok, cid)
  \/ \E sid \in NetServerIds, bodyPort \in Ports, ok \in BOOLEAN :
        Serial /\ EditServer(sid, Undef, NoEnv, bodyPort, ok, 1)

SpecAdmin == InitNetwork /\ [][NextAdmin]_vars

\* ------------------------------------------------------------- health probe
\* What a call of fetch(.../health) can meet: the connection fails or never
\* answers, or the node answers with a success status or not, with a body
\* that is not JSON, is the JSON null, or is an object whose status field is
\* one of a few strings or is missing.
ProbeAnswers ==
  [transport : {"ok", "refused", "timeout"},
   ok : BOOLEAN,
   json : {"invalid", "null", "object"},
   status : {"online", "dockernotrunning", "offline", "Online", "none"}]

\* The try block of checkNodeHealth: the value it returns, or "throw" when
\* fetch rejects, the response is not ok, res.json() rejects or data is null.
ProbeTry(answer) ==
  IF answer.transport # "ok" THEN "throw"
  ELSE IF ~answer.ok THEN "throw"
  ELSE IF answer.json # "object" THEN "throw"
  ELSE IF answer.status = "online" THEN "online"
  ELSE IF answer.status = "dockernotrunning" THEN "dockernotrunning"
  ELSE "offline"

CheckNodeHealthNoCatch(answer) == ProbeTry(answer)

\* checkNodeHealth: catch { return "offline" }
CheckNodeHealth(answer) ==
  IF ProbeTry(answer) = "throw" THEN "offline" ELSE ProbeTry(answer)

\* POST /admin/node/:id and GET /admin/node/:id: probe the node and store the
\* status when it differs from the stored one.
RefreshNode(nid, answer) ==
  /\ IF ~HasNode(nid) THEN
       /\ resp' = Answer("nodeInfo", 404, "Node not found", <<nid, answer, "">>, "none")
       /\ UNCHANGED nodes
     ELSE
       LET status == CheckNodeHealth(answer)
       IN /\ nodes' = IF GetNode(nid).status # status
                      THEN [nodes EXCEPT ![NodeIndex(nid)].status = status]
                      ELSE nodes
          /\ resp' = Answer("nodeInfo", 200, "", <<nid, answer, status>>,
                            IF answer.transport = "ok" THEN "ok" ELSE "fail")
  /\ UNCHANGED <<servers, users, fresh>>

NextProbe ==
  \E nid \in 1..(MaxNodes + 1), answer \in ProbeAnswers :
     Serial /\ RefreshNode(nid, answer)

SpecProbe == InitNetwork /\ [][NextProbe]_vars

\* ------------------------------------------------------------- API key gate
Capabilities == {"nodes", "servers", "users", "settings", "images"}

\* crypto.createHash("sha256").update(String(rawToken)).digest("hex"), taken
\* as free of collisions: a one-to-one map out of the tokens.
TokenHash(token) == 2 * token + 1

\* Table apikeys as POST /admin/apikeys/new and /admin/apikeys/edit leave it:
\* each key holds the hash of its own token, five booleans and visible.
ApiKeys ==
  << [id |-> 1, tokenHash |-> TokenHash(1), visible |-> TRUE,
      perms |-> [c \in Capabilities |-> TRUE]],
     [id |-> 2, tokenHash |-> TokenHash(2), visible |-> FALSE,
      perms |-> [c \in Capabilities |-> TRUE]],
     [id |-> 3, tokenHash |-> TokenHash(3), visible |-> TRUE,
      perms |-> [c \in Capabilities |-> c = "nodes"]],
     [id |-> 4, tokenHash |-> TokenHash(4), visible |-> TRUE,
      perms |-> [c \in Capabilities |-> c = "servers"]] >>

\* The tokens a request can carry: one per stored key and one that matches
\* no key.
Tokens == 1..(Len(ApiKeys) + 1)

\* The two headers requireAPI reads: authorization (absent, Bearer with a
\* token or with nothing after it, or another scheme) and x-api-key.
ApiHeaders ==
  [auth : {"none", "Bearer", "Basic"},
   bearer : Tokens \cup {Undef},
   xkey : Tokens \cup {Undef}]

\* (authHeader && authHeader.startsWith("Bearer ") ? authHeader.slice(7) : null)
\*   || req.headers["x-api-key"]
RawToken(h) ==
  IF h.auth = "Bearer" /\ h.bearer # Undef THEN h.bearer ELSE h.xkey

\* requireAPI: the status it answers, or 0 with the key it loads in req.apiKey.
RequireAPI(h) ==
  IF RawToken(h) = Undef THEN [status |-> 401, err |-> "API key required", key |-> 0]
  ELSE LET I == {i \in 1..Len(ApiKeys) : ApiKeys[i].tokenHash = TokenHash(RawToken(h))}
       IN IF I = {} THEN [status |-> 401, err |-> "Invalid API key", key |-> 0]
          ELSE IF ApiKeys[Least(I)].visible = FALSE
          THEN [status |-> 403, err |-> "API key disabled", key |-> 0]
          ELSE [status |-> 0, err |-> "", key |-> Least(I)]

RequirePermissionSome(key, list) ==
  IF key = 0 THEN [status |-> 401, err |-> "API key not loaded"]
  ELSE IF list = <<>> THEN [status |-> 500, err |-> "Permission not specified"]
  ELSE IF \E i \in 1..Len(list) : ApiKeys[key].perms[list[i]] = TRUE
  THEN [status |-> 0, err |-> ""]
  ELSE [status |-> 403, err |-> "Missing permission"]

\* requirePermission(perms): list.every((p) => req.apiKey.perms?.[p] === true)
RequirePermission(key, list) ==
  IF key = 0 THEN [status |-> 401, err |-> "API key not loaded"]
  ELSE IF list = <<>> THEN [status |-> 500, err |-> "Permission not specified"]
  ELSE IF \A i \in 1..Len(list) : ApiKeys[key].perms[list[i]] = TRUE
  THEN [status |-> 0, err |-> ""]
  ELSE [status |-> 403, err |-> "Missing permission"]

ApiRoutes == {"allocations/add", "servers/new", "servers/delete"}

\* The capabilities each route hands to requirePermission.
RoutePerms(route) ==
  CASE route = "allocations/add" -> <<"nodes">>
    [] route = "servers/new" -> <<"servers">>
    [] route = "servers/delete" -> <<"servers", "nodes">>

\* A request to an /api/v1 route going through requireAPI and
\* requirePermission: answered by one of them, or handed on with next().
ApiEnter(h, route) ==
  /\ resp.op # "apiNext"
  /\ resp' = IF RequireAPI(h).status # 0
             THEN Answer("api", RequireAPI(h).status, RequireAPI(h).err,
                         <<h, route, 0>>, "none")
             ELSE IF RequirePermission(RequireAPI(h).key, RoutePerms(route)).status # 0
             THEN Answer("api",
                         RequirePermission(RequireAPI(h).key, RoutePerms(route)).status,
                         RequirePermission(RequireAPI(h).key, RoutePerms(route)).err,
                         <<h, route, RequireAPI(h).key>>, "none")
             ELSE Answer("apiNext", 0, "", <<h, route, RequireAPI(h).key>>, "none")
  /\ UNCHANGED <<nodes, servers, users, fresh>>

\* The route's handler, called by next() of requirePermission.
ApiHandle(nid, aid, uid, sid, ip, port, ok) ==
  /\ resp.op = "apiNext"
  /\ CASE resp.args[2] = "allocations/add" ->
            /\ nid = 1 /\ uid = 1 /\ sid = 1 /\ ok /\ aid = 1
            /\ AddAllocation(nid, ip, port)
       [] resp.args[2] = "servers/new" ->
            /\ ip = 1 /\ port = 1 /\ sid = 1
            /\ fresh.server < MaxNetServers
            /\ CreateServer(nid, aid, uid, 1, NoEnv, ok, FirstAnswer)
       [] resp.args[2] = "servers/delete" ->
            /\ nid = 1 /\ aid = 1 /\ uid = 1 /\ ip = 1 /\ port = 1
            /\ DeleteServer(sid, ok)

NextApi ==
  \/ \E h \in ApiHeaders, route \in ApiRoutes : Serial /\ ApiEnter(h, route)
  \/ \E nid \in NodeIds, aid \in FleetAllocIds, uid \in UserIds, sid \in NetServerIds,
        ip \in IPs, port \in Ports \cup {MaxPort + 1}, ok \in BOOLEAN :
        Serial /\ ApiHandle(nid, aid, uid, sid, ip, port, ok)

SpecApi == InitNetwork /\ [][NextApi]_vars

\* ------------------------------------------------------- requests that fail
\* The ledger, create, delete and add routes from an empty database, with
\* bodies that leave fields out and ids that name nothing.
NextValidate ==
  \/ \E name \in {1}, ip \in {1}, viaApi \in {FALSE} :
        Serial /\ fresh.node < 1 /\ CreateNode(name, ip, viaApi)
  \/ \E nid \in {1, MaxNodes + 1}, ip \in {1, Undef}, port \in Ports \cup {Undef} :
        Serial /\ AddAllocation(nid, ip, port)
  \/ \E nid \in {1, MaxNodes + 1}, ip \in {1, Undef}, start \in Ports, end \in Ports :
        Serial /\ AddAllocationRange(nid, ip, start, end)
  \/ \E nid \in {1, MaxNodes + 1}, aid \in AllocIds : Serial /\ DeleteAllocation(nid, aid)
  \/ \E nid \in {Undef, 1, MaxNodes + 1}, aid \in {Undef} \cup AllocIds,
        uid \in {Undef, 1, MaxUsers + 1}, imageId \in {Undef, 1, MaxImages + 1},
        ok \in BOOLEAN :
        /\ Serial
        /\ fresh.server < MaxNetServers \/ CreateRejects(nid, aid, uid, imageId) # 0
        /\ CreateServer(nid, aid, uid, imageId, NoEnv, ok, FirstAnswer)
  \/ \E sid \in 1..(MaxNetServers + 1), ok \in BOOLEAN : Serial /\ DeleteServer(sid, ok)
  \/ \E actor \in {1}, sid \in NetServerIds, port \in Ports, ok \in BOOLEAN :
        Serial /\ AddAllocationToServer(actor, sid, port, ok, 1)

SpecValidate == InitEmpty /\ [][NextValidate]_vars

\* ------------------------------------------------------ file interpolation
\* Strings are sequences of characters; \w is one of the word characters.
WordChars == {"A", "B"}
MaxPieces == 4

\* The pieces file urls and names are put together from: whole tokens, a
\* plain character, a word character and the three characters of the token
\* syntax on their own.
Pieces ==
  { <<"$", "{", "A", "}">>, <<"$", "{", "B", "}">>, <<"/">>, <<"A">>,
    <<"$">>, <<"{">>, <<"}">> }

PieceLists == UNION {[1..n -> Pieces] : n \in 0..MaxPieces}

RECURSIVE Flatten(_)
Flatten(pieces) ==
  IF pieces = <<>> THEN <<>> ELSE Head(pieces) \o Flatten(Tail(pieces))

\* file.url or file.name: a string, or no string at all (undefined).
StringOf(text) == [kind |-> "string", text |-> text]
NotAString == [kind |-> "undefined", text |-> <<>>]

\* A value of the environment object: a string or null.
EnvNull == [kind |-> "null", text |-> <<>>]
EnvObjects ==
  UNION {[K -> {StringOf(<<>>), StringOf(<<"/">>),
                StringOf(<<"$", "{", "B", "}">>), EnvNull}]
           : K \in SUBSET {<<"A">>}}
\* process.env: strings only.
ProcessEnvs == UNION {[K -> {<<"A">>}] : K \in SUBSET {<<"A">>, <<"B">>}}
MergedEnvs ==
  {[k \in DOMAIN a \cup DOMAIN b |-> IF k \in DOMAIN a THEN a[k] ELSE b[k]] :
     a \in EnvObjects, b \in UNION {[K -> {StringOf(<<"/">>)}] : K \in SUBSET {<<"B">>}}}

RECURSIVE NameEnd(_, _)
\* \w+ from position i: the position of the last word character of the
\* longest run starting at i (i - 1 when there is none).
NameEnd(s, i) ==
  IF i <= Len(s) /\ s[i] \in WordChars THEN NameEnd(s, i + 1) ELSE i - 1

\* /\$\{(\w+)\}/ anchored at position i: the position of the closing brace,
\* or 0 when no token starts at i.
TokenEnd(s, i) ==
  IF /\ i + 3 <= Len(s)
     /\ s[i] = "$"
     /\ s[i + 1] = "{"
     /\ NameEnd(s, i + 2) >= i + 2
     /\ NameEnd(s, i + 2) + 1 <= Len(s)
     /\ s[NameEnd(s, i + 2) + 1] = "}"
  THEN NameEnd(s, i + 2) + 1
  ELSE 0

\* envObj[key] ?? process.env[key] ?? ""
Lookup(envObj, procEnv, key) ==
  IF key \in DOMAIN envObj /\ envObj[key].kind # "null" THEN envObj[key].text
  ELSE IF key \in DOMAIN procEnv THEN procEnv[key]
  ELSE <<>>

RECURSIVE ReplaceFrom(_, _, _, _)
\* str.replace(/\$\{(\w+)\}/g, replacer) from position i on: matches are
\* taken from left to right and the scan goes on after each match.
ReplaceFrom(s, i, envObj, procEnv) ==
  IF i > Len(s) THEN <<>>
  ELSE IF TokenEnd(s, i) # 0
  THEN Lookup(envObj, procEnv, SubSeq(s, i + 2, TokenEnd(s, i) - 1))
         \o ReplaceFrom(s, TokenEnd(s, i) + 1, envObj, procEnv)
  ELSE <<s[i]>> \o ReplaceFrom(s, i + 1, envObj, procEnv)

InterpolateEnvTwice(str, envObj, procEnv) ==
  IF str.kind # "string" THEN str
  ELSE StringOf(ReplaceFrom(ReplaceFrom(str.text, 1, envObj, procEnv), 1,
                            envObj, procEnv))

\* interpolateEnv(str, envObj)
InterpolateEnv(str, envObj, procEnv) ==
  IF str.kind # "string" THEN str
  ELSE StringOf(ReplaceFrom(str.text, 1, envObj, procEnv))

\* A file template of an image waiting to be resolved by create or edit,
\* with the merged environment and the process environment of the panel.
InitInterpolate ==
  /\ nodes = <<>>
  /\ servers = <<>>
  /\ users = InitUsers
  /\ fresh = [node |-> 0, alloc |-> 0, server |-> 0]
  /\ \E pieces \in PieceLists, envObj \in MergedEnvs, procEnv \in ProcessEnvs,
        isString \in BOOLEAN :
        /\ isString \/ pieces = <<>>
        /\ resp = Answer("file", 0, "",
                         <<IF isString THEN StringOf(Flatten(pieces)) ELSE NotAString,
                           envObj, procEnv, pieces, NotAString>>, "none")
  /\ job = Idle
  /\ pending = <<>>
  /\ relay = NoRelay

\* url: interpolateEnv(file.url, finalEnv) in the map over the image's files.
ResolveFile ==
  /\ resp.op = "file"
  /\ resp' = Answer("interpolateEnv", 200, "",
                    <<resp.args[1], resp.args[2], resp.args[3], resp.args[4],
                      InterpolateEnv(resp.args[1], resp.args[2], resp.args[3])>>,
                    "none")
  /\ UNCHANGED <<nodes, servers, users, fresh, job, pending, relay>>

NextInterpolate == ResolveFile

SpecInterpolate == InitInterpolate /\ [][NextInterpolate]_vars

\* ------------------------------------------------- the delete loops, turn
\* by turn.  A turn of a delete loop is two steps: the handler issues its
\* call to the node agent and is suspended at `await axios.delete(...)`,
\* then, with the agent's answer, runs the turn's clean-up.  pending holds
\* the calls to the agent that have not been answered.
AwaitsNodeNever == FALSE

\* the handler is suspended at the await of its turn
AwaitsNode == pending # <<>>

\* The call of a turn: the server of the turn and the node the turn found.
DeleteCall(server, node) ==
  [op |-> "delete", nodeId |-> node.id, allocId |-> Undef, userId |-> server.userId,
   port |-> Undef, node |-> node, user |-> [id |-> Undef, admin |-> FALSE, servers |-> <<>>],
   server |-> server]

\* for (const server of serversToRemove): the turn up to its await.  The
\* call goes to the node found for the server, else to the node being deleted.
DeleteNodeCall ==
  /\ job.kind = "deleteNode"
  /\ job.at <= Len(job.list)
  /\ ~AwaitsNode
  /\ LET i == NodeIndexByIdOrIp(nodes, job.list[job.at])
     IN pending' = Append(pending, DeleteCall(job.list[job.at],
                                     IF i # 0 THEN nodes[i] ELSE job.node))
  /\ UNCHANGED <<nodes, servers, users, fresh, resp, job, relay>>

\* The turn of the node delete loop from the agent's answer on.
DeleteNodeAnswer(ok) ==
  /\ job.kind = "deleteNode"
  /\ AwaitsNode
  /\ LET db == CleanNodeServer([nodes |-> nodes, servers |-> servers, users |-> users],
                               pending[1].server, job.node)
     IN /\ nodes' = db.nodes
        /\ servers' = db.servers
        /\ users' = db.users
  /\ job' = [job EXCEPT !.at = @ + 1, !.remote = Worse(@, ok)]
  /\ pending' = Tail(pending)
  /\ UNCHANGED <<fresh, resp, relay>>

\* for (const s of userServers): the turn up to its await.  When the server's
\* node is not found (if (node && server.idt)) there is no call and the turn
\* deletes the server record at once.
DeleteUserCall ==
  /\ job.kind = "deleteUser"
  /\ job.at <= Len(job.list)
  /\ ~AwaitsNode
  /\ IF NodeIndexByIdThenIp(nodes, job.list[job.at]) # 0 THEN
       /\ pending' = Append(pending, DeleteCall(job.list[job.at],
                              nodes[NodeIndexByIdThenIp(nodes, job.list[job.at])]))
       /\ UNCHANGED <<nodes, servers, users, fresh, resp, job, relay>>
     ELSE DeleteUserStep(FALSE)

\* The turn of the user delete loop from the agent's answer on.
DeleteUserAnswer(ok) ==
  /\ job.kind = "deleteUser"
  /\ AwaitsNode
  /\ LET db == CleanUserServer([nodes |-> nodes, servers |-> servers, users |-> users],
                               pending[1].server)
     IN /\ nodes' = db.nodes
        /\ servers' = db.servers
        /\ users' = db.users
  /\ job' = [job EXCEPT !.at = @ + 1, !.remote = Worse(@, ok)]
  /\ pending' = Tail(pending)
  /\ UNCHANGED <<fresh, resp, relay>>

NextCascade ==
  \/ \E nid \in NodeIds, aid \in FleetAllocIds, uid \in UserIds, ok \in BOOLEAN :
        /\ Serial
        /\ fresh.server < MaxServers
        /\ CreateServer(nid, aid, uid, 1, NoEnv, ok, FirstAnswer)
  \/ \E nid \in NodeIds : DeleteNodeBegin(nid)
  \/ DeleteNodeCall
  \/ \E ok \in BOOLEAN : DeleteNodeAnswer(ok)
  \/ DeleteNodeEnd
  \/ \E actor \in Admins, target \in UserIds : DeleteUserBegin(actor, target)
  \/ DeleteUserCall
  \/ \E ok \in BOOLEAN : DeleteUserAnswer(ok)
  \/ DeleteUserEnd

SpecCascade == InitFleet /\ [][NextCascade]_vars

\* ------------------------------------------- the audit log and the settings
\* An audit entry: who did what.  The id and the timestamp addAuditLog adds
\* are left out; the action is a word and a number.
MaxAudit == 2

AuditEntry(userId, action) == [userId |-> userId, action |-> action]

\* Array.isArray(server.auditLogs) ? server.auditLogs : []
AuditOf(server) == IF "auditLogs" \in DOMAIN server THEN server.auditLogs ELSE <<>>

\* object.field = value on an object that may not have the field yet
WithField(object, field, value) ==
  [f \in DOMAIN object \cup {field} |-> IF f = field THEN value ELSE object[f]]

\* u.servers.findIndex(s => s.id === server.id); u.servers[idx].auditLogs = ...
FanOut(list, sid, logs) ==
  LET I == {i \in 1..Len(list) : list[i].id = sid}
  IN IF I = {} THEN list
     ELSE [list EXCEPT ![Least(I)] = WithField(@, "auditLogs", logs)]

\* addAuditLog(serverId, userId, action) on the tables srv and usr as the
\* handler left them: the tables after it.
AddAuditLog(srv, usr, serverId, userId, action) ==
  IF serverId \notin DOMAIN srv THEN [servers |-> srv, users |-> usr]
  ELSE LET logs == Append(AuditOf(srv[serverId]), AuditEntry(userId, action))
       IN [servers |-> Put(srv, serverId, WithField(srv[serverId], "auditLogs", logs)),
           users |-> [u \in DOMAIN usr |->
                        [usr[u] EXCEPT !.servers = FanOut(@, serverId, logs)]]]

\* withServer answering without calling the route.
Refused(op, actor, sid, args) ==
  /\ resp' = IF WithServer(actor, sid) = "throw"
             THEN Answer(op, 500, "no server", args, "none")
             ELSE Answer(op, 302, "SUSPENDED", args, "none")
  /\ UNCHANGED <<nodes, servers, users, fresh>>

\* The writes the rename and envs routes share: the session user's list with
\* the changed object in place of the entry of the same id, the canonical
\* record with the one field changed, then the audit entry.
SaveField(actor, sid, field, value, action) ==
  LET server == [GetServerForUser(actor, sid) EXCEPT ![field] = value]
      usr == Put(users, actor, [users[actor] EXCEPT !.servers = ReplaceServer(@, server)])
      srv == IF sid \in DOMAIN servers
             THEN [servers EXCEPT ![sid][field] = value] ELSE servers
      log == AddAuditLog(srv, usr, sid, actor, action)
  IN /\ servers' = log.servers
     /\ users' = log.users
     /\ UNCHANGED <<nodes, fresh>>

\* POST /server/settings/:id/rename
Rename(actor, sid, newName) ==
  IF WithServer(actor, sid) # "next" THEN Refused("rename", actor, sid, <<actor, sid, newName>>)
  ELSE IF newName = Undef THEN
    /\ resp' = Answer("rename", 400, "Missing newName", <<actor, sid, newName>>, "none")
    /\ UNCHANGED <<nodes, servers, users, fresh>>
  ELSE
    /\ SaveField(actor, sid, "name", newName, <<"rename", newName>>)
    /\ resp' = Answer("rename", 302, "", <<actor, sid, newName>>, "none")

\* POST /server/settings/:id/envs
SaveEnv(actor, sid, newEnv) ==
  IF WithServer(actor, sid) # "next" THEN Refused("saveEnv", actor, sid, <<actor, sid, newEnv>>)
  ELSE
    /\ SaveField(actor, sid, "env", newEnv, <<"env", 0>>)
    /\ resp' = Answer("saveEnv", 302, "", <<actor, sid, newEnv>>, "none")

\* unsqh.list("servers").find((s) => s.idt === server.idt): its id, or Undef
ServerIdByIdt(tbl, idt) ==
  LET I == {i \in DOMAIN tbl : tbl[i].idt = idt}
  IN IF I = {} THEN Undef ELSE Least(I)

\* POST /server/settings/reinstall/:id, the node agent answering ok or not
Reinstall(actor, sid, ok, cid) ==
  IF WithServer(actor, sid) # "next" THEN Refused("reinstall", actor, sid, <<actor, sid>>)
  ELSE IF NodeIndexByIp(nodes, GetServerForUser(actor, sid)) = 0 THEN
    /\ resp' = Answer("reinstall", 404, "Node not found", <<actor, sid>>, "none")
    /\ UNCHANGED <<nodes, servers, users, fresh>>
  ELSE IF ~ok THEN
    /\ resp' = Answer("reinstall", 302, "rs=false", <<actor, sid>>, "fail")
    /\ UNCHANGED <<nodes, servers, users, fresh>>
  ELSE
    LET server == [GetServerForUser(actor, sid) EXCEPT !.containerId = cid]
        usr == Put(users, actor,
                   [users[actor] EXCEPT !.servers = ReplaceServer(@, server)])
        found == ServerIdByIdt(servers, server.idt)
        srv == IF found # Undef THEN [servers EXCEPT ![found].containerId = cid]
               ELSE servers
        log == AddAuditLog(srv, usr, sid, actor, <<"reinstall", 0>>)
    IN /\ servers' = log.servers
       /\ users' = log.users
       /\ resp' = Answer("reinstall", 302, "", <<actor, sid>>, "ok")
       /\ UNCHANGED <<nodes, fresh>>

\* POST /server/settings/:id/subuser/add, target the user of the email in the
\* body (Undef: no email).  The entry for the subuser reads
\* globalServer.ftp.host: no server record has an ftp field, the read
\* throws, and the catch block answers 500 before anything is written.
SubuserAdd(actor, sid, target) ==
  IF WithServer(actor, sid) # "next" THEN Refused("subuserAdd", actor, sid, <<actor, sid, target>>)
  ELSE
    /\ resp' = IF target = Undef
               THEN Answer("subuserAdd", 400, "Missing email", <<actor, sid, target>>, "none")
               ELSE IF target \notin DOMAIN users
               THEN Answer("subuserAdd", 404, "Subuser not found", <<actor, sid, target>>, "none")
               ELSE IF OwnCopyIndex(target, sid) # 0
               THEN Answer("subuserAdd", 302, "already", <<actor, sid, target>>, "none")
               ELSE Answer("subuserAdd", 500, "Failed to add subuser",
                           <<actor, sid, target>>, "none")
    /\ UNCHANGED <<nodes, servers, users, fresh>>

\* globalServer.subusers = (Array.isArray(globalServer.subusers) ?
\* globalServer.subusers : []).filter((u) => u !== subuser.id)
SubusersWithout(server, userId) ==
  IF "subusers" \in DOMAIN server
  THEN SelectSeq(server.subusers, LAMBDA u : u # userId) ELSE <<>>

\* POST /server/settings/:id/subuser/remove.  globalServer.ownerId is not a
\* field of any server record: the test against the owner never holds.
SubuserRemove(actor, sid, subuserId) ==
  IF WithServer(actor, sid) # "next"
  THEN Refused("subuserRemove", actor, sid, <<actor, sid, subuserId>>)
  ELSE IF subuserId = Undef \/ subuserId \notin DOMAIN users
          \/ OwnCopyIndex(subuserId, sid) = 0 THEN
    /\ resp' = IF subuserId = Undef
               THEN Answer("subuserRemove", 400, "Missing subuserId",
                           <<actor, sid, subuserId>>, "none")
               ELSE IF subuserId \notin DOMAIN users
               THEN Answer("subuserRemove", 404, "Subuser not found",
                           <<actor, sid, subuserId>>, "none")
               ELSE Answer("subuserRemove", 302, "notfound",
                           <<actor, sid, subuserId>>, "none")
    /\ UNCHANGED <<nodes, servers, users, fresh>>
  ELSE
    LET globalServer == IF sid \in DOMAIN servers THEN servers[sid]
                        ELSE GetServerForUser(actor, sid)
        usr == [users EXCEPT ![subuserId].servers = WithoutServer(@, sid)]
        srv == Put(servers, sid,
                   WithField(globalServer, "subusers",
                             SubusersWithout(globalServer, subuserId)))
        log == AddAuditLog(srv, usr, sid, actor, <<"subuserRemove", subuserId>>)
    IN /\ servers' = log.servers
       /\ users' = log.users
       /\ resp' = Answer("subuserRemove", 302, "", <<actor, sid, subuserId>>, "none")
       /\ UNCHANGED <<nodes, fresh>>

\* The audit list of the server has room for one more entry, or the request
\* is one withServer refuses.
AuditRoom(actor, sid) ==
  \/ WithServer(actor, sid) # "next"
  \/ sid \in DOMAIN servers => Len(AuditOf(servers[sid])) < MaxAudit

\* The settings routes, the network routes and the admin's suspension, one
\* request after the other, on one server of node 1.  The audit entries of
\* the network routes are not recorded here.
NextSettings ==
  \/ \E uid \in UserIds :
        /\ Serial
        /\ fresh.server < MaxNetServers
        /\ CreateServer(1, 1, uid, 1, NoEnv, TRUE, FirstAnswer)
  \/ \E sid \in NetServerIds : Serial /\ Suspend(sid, TRUE)
  \/ \E sid \in NetServerIds : Serial /\ Unsuspend(sid)
  \/ \E actor \in UserIds, sid \in NetServerIds, newName \in {2, Undef} :
        Serial /\ AuditRoom(actor, sid) /\ Rename(actor, sid, newName)
  \/ \E actor \in UserIds, sid \in NetServerIds :
        Serial /\ AuditRoom(actor, sid) /\ SaveEnv(actor, sid, NoEnv)
  \/ \E actor \in UserIds, sid \in NetServerIds, ok \in BOOLEAN :
        Serial /\ AuditRoom(actor, sid) /\ Reinstall(actor, sid, ok, 2)
  \/ \E actor \in UserIds, sid \in NetServerIds, target \in {1, Undef} :
        Serial /\ SubuserAdd(actor, sid, target)
  \/ \E actor \in UserIds, sid \in NetServerIds, subuserId \in UserIds :
        Serial /\ AuditRoom(actor, sid) /\ SubuserRemove(actor, sid, subuserId)
  \/ \E actor \in UserIds, sid \in NetServerIds, ok \in BOOLEAN :
        Serial /\ AddAllocationToServer(actor, sid, 2, ok, 1)
  \/ \E actor \in UserIds, sid \in NetServerIds :
        Serial /\ SetPrimary(actor, sid, 2, TRUE, 1)
  \/ \E actor \in UserIds, sid \in NetServerIds :
        Serial /\ RemoveAllocationFromServer(actor, sid, 1, TRUE, 1)

SpecSettings == InitNetwork /\ [][NextSettings]_vars

\* ------------------------------------------------ the audit log, in flight
\* The statements of the add route after the node agent answered, with the
\* audit entry its last statement adds.
AddPersistLogged(user, server, node, port, cid) ==
  LET after == AddedServer(server, node, port, cid)
      srv == Put(servers, server.id, after)
      usr == Put(users, user.id, [user EXCEPT !.servers = ReplaceServer(@, after)])
      log == AddAuditLog(srv, usr, server.id, user.id, <<"add", port>>)
  IN /\ nodes' = UpdateNodeAllocations(nodes, node.id, AddClaimed(server, node, port))
     /\ servers' = log.servers
     /\ users' = log.users
     /\ resp' = Answer("addAllocationToServer", 302, "", <<user.id, server.id, port>>, "ok")
     /\ UNCHANGED fresh

\* The add route from the node agent's answer on, audit entry included.
AddEndLogged(i, ok) ==
  /\ i \in 1..Len(pending)
  /\ pending[i].op = "add"
  /\ IF ok THEN AddPersistLogged(pending[i].user, pending[i].server, pending[i].node,
                                 pending[i].port, 1)
     ELSE AddFailed(pending[i].userId, pending[i].server.id, pending[i].port)
  /\ pending' = RemoveAt(pending, i)
  /\ UNCHANGED <<job, relay>>

\* Logged requests on one server: the settings routes answer at once, the
\* network claim waits for the node agent and other requests are served
\* meanwhile.
NextAudit ==
  \/ \E uid \in UserIds :
        /\ Serial
        /\ fresh.server < MaxNetServers
        /\ CreateServer(1, 1, uid, 1, NoEnv, TRUE, FirstAnswer)
  \/ \E actor \in UserIds, sid \in NetServerIds, newName \in Names :
        Serial /\ AuditRoom(actor, sid) /\ Rename(actor, sid, newName)
  \/ \E actor \in UserIds, sid \in NetServerIds :
        Serial /\ AuditRoom(actor, sid) /\ SaveEnv(actor, sid, NoEnv)
  \/ \E actor \in UserIds, sid \in NetServerIds, port \in Ports :
        /\ Len(pending) < MaxInflight
        /\ AddBegin(actor, sid, port)
  \/ \E i \in 1..MaxInflight, ok \in BOOLEAN : AddEndLogged(i, ok)

SpecAudit == InitNetwork /\ [][NextAudit]_vars

\* ------------------------------------------------------------ the claims
\* C1: whenever an allocation names an owner server, that server exists
\* in the canonical table and is recorded on the allocation's node.
OwnerExists ==
  \A n \in 1..Len(nodes) : \A i \in 1..Len(nodes[n].allocations) :
    LET a == nodes[n].allocations[i]
    IN a.owner # Undef => /\ a.owner \in DOMAIN servers
                          /\ servers[a.owner].node.id = nodes[n].id

\* C3: on every node, at most one of the allocations a server owns is
\* marked primary.
OnePrimary ==
  \A n \in 1..Len(nodes) : \A i, j \in 1..Len(nodes[n].allocations) :
    LET a == nodes[n].allocations[i]
        b == nodes[n].allocations[j]
    IN (a.owner # Undef /\ a.owner = b.owner
        /\ a.type = "primary" /\ b.type = "primary") => i = j

\* C4: an allocation owned by one server is never assigned to a different
\* server, whatever the interleaving of the claim requests.
ClaimNeverReassigns ==
  [][\A n \in 1..Len(nodes) : \A k \in 1..Len(nodes[n].allocations) :
       (/\ nodes[n].allocations[k].owner # Undef
        /\ nodes'[n].allocations[k].owner # Undef)
       => nodes'[n].allocations[k].owner = nodes[n].allocations[k].owner]_vars

\* C5: a create whose call to the node agent fails writes no server record,
\* changes no allocation and changes no user's server list.  (A step that
\* leaves job alone and ends with a createServer reply is a create request.)
CreateFailureWritesNothing ==
  [][(resp'.op = "createServer" /\ resp'.remote = "fail" /\ job' = job)
       => UNCHANGED <<nodes, servers, users>>]_vars

\* A create failed at the node agent while another server existed.
CreateFailedSeen ==
  /\ resp.op = "createServer"
  /\ resp.remote = "fail"
  /\ resp.status = 500
  /\ job = Idle
  /\ DOMAIN servers # {}

\* C6: a create that succeeds makes the chosen allocation owned by the new
\* server and primary, stores the canonical record under the new id, and
\* appends the server to the target user's list.
CreateSuccessPersists ==
  [][(resp'.op = "createServer" /\ resp'.status = 200 /\ job' = job) =>
       LET nodeId == resp'.args[1]
           allocId == resp'.args[2]
           userId == resp'.args[3]
           sid == resp'.args[4]
       IN /\ sid \notin DOMAIN servers
          /\ sid \in DOMAIN servers'
          /\ servers'[sid].id = sid
          /\ servers'[sid].userId = userId
          /\ servers'[sid].node.id = nodeId
          /\ \E n \in 1..Len(nodes') :
               /\ nodes'[n].id = nodeId
               /\ \E k \in 1..Len(nodes'[n].allocations) :
                    /\ nodes'[n].allocations[k].id = allocId
                    /\ nodes'[n].allocations[k].owner = sid
                    /\ nodes'[n].allocations[k].type = "primary"
          /\ users'[userId].servers = Append(users[userId].servers, servers'[sid])]_vars

\* A create succeeded for a user who already had a server.
CreateAppended ==
  /\ resp.op = "createServer"
  /\ resp.status = 200
  /\ job = Idle
  /\ resp.args[4] \in DOMAIN servers
  /\ Len(users[resp.args[3]].servers) = 2

\* C7: a server delete that finds its server removes the canonical record,
\* removes the server from the users' lists and leaves no allocation owned
\* by it, whatever the node agent answered.
DeleteServerCleans ==
  [][(resp'.op = "deleteServer" /\ resp'.status = 200 /\ job' = job
      /\ resp'.args[1] \in DOMAIN servers) =>
       LET sid == resp'.args[1]
       IN /\ sid \notin DOMAIN servers'
          /\ \A u \in DOMAIN users' : \A i \in 1..Len(users'[u].servers) :
               users'[u].servers[i].id # sid
          /\ \A n \in 1..Len(nodes') : \A k \in 1..Len(nodes'[n].allocations) :
               nodes'[n].allocations[k].owner # sid]_vars

\* C8: a delete of a server that was created and is no longer in the
\* canonical table answers "Server not found", calls no node agent and
\* changes no node, server or user record.
DeleteAgainNotFound ==
  [][\A sid \in ServerIds :
       (sid <= fresh.server /\ sid \notin DOMAIN servers /\ job' = job
        /\ resp'.op = "deleteServer" /\ resp'.args = <<sid>>)
       => /\ resp'.status = 404
          /\ resp'.err = "Server not found"
          /\ resp'.remote = "none"
          /\ UNCHANGED <<nodes, servers, users>>]_vars

\* A delete was answered not found for a server that had been created, after
\* a delete of the same server.
DeletedTwice ==
  /\ resp.op = "deleteServer"
  /\ resp.status = 404
  /\ resp.err = "Server not found"
  /\ job = Idle
  /\ resp.args[1] <= fresh.server

\* C9: when a node delete ends, the node record is gone, none of the servers
\* it listed as bound to the node is left in the canonical table or in a
\* user's list, and no allocation of any node names one of them as owner.
NodeDeleteCascades ==
  [][(job.kind = "deleteNode" /\ job'.kind = "idle") =>
       /\ \A n \in 1..Len(nodes') : nodes'[n].id # job.id
       /\ \A s \in 1..Len(job.list) :
            /\ job.list[s].id \notin DOMAIN servers'
            /\ \A u \in DOMAIN users' : \A i \in 1..Len(users'[u].servers) :
                 users'[u].servers[i].id # job.list[s].id
            /\ \A n \in 1..Len(nodes') : \A k \in 1..Len(nodes'[n].allocations) :
                 nodes'[n].allocations[k].owner # job.list[s].id]_vars

AddAfterCreateListsBoth ==
  [][(/\ resp'.op = "addAllocationToServer"
      /\ resp'.remote = "ok"
      /\ resp'.err = ""
      /\ job' = job
      /\ resp'.args[2] \in DOMAIN servers
      /\ ~servers[resp'.args[2]].hasPorts
      /\ servers[resp'.args[2]].port # Undef
      /\ servers[resp'.args[2]].port # resp'.args[3]) =>
       LET sid == resp'.args[2]
           p1 == servers[sid].port
           p2 == resp'.args[3]
           owner == servers[sid].userId
       IN /\ servers'[sid].hasPorts
          /\ servers'[sid].ports = <<p1, p2>>
          /\ \E n \in 1..Len(nodes') : \E k \in 1..Len(nodes'[n].allocations) :
               /\ nodes'[n].id = servers[sid].node.id
               /\ nodes'[n].allocations[k].port = p2
               /\ nodes'[n].allocations[k].owner = sid
          /\ \A i \in 1..Len(users'[owner].servers) :
               users'[owner].servers[i].id = sid
                 => users'[owner].servers[i] = servers'[sid]]_vars

\* C12: the setprimary route succeeds only when the allocation with that
\* port on the server's node is owned by the server; after it succeeds, of
\* the allocations of that node the server owns, the one with that port is
\* primary and every other one secondary, and the server's primary port is
\* that port.
SetPrimaryFlips ==
  [][(/\ resp'.op = "setPrimary"
      /\ resp'.remote = "ok"
      /\ resp'.err = ""
      /\ job' = job) =>
       LET sid == resp'.args[2]
           port == resp'.args[3]
       IN /\ sid \in DOMAIN servers'
          /\ servers'[sid].port = port
          /\ \E n \in 1..Len(nodes) : \E k \in 1..Len(nodes[n].allocations) :
               /\ nodes[n].id = servers'[sid].node.id
               /\ nodes[n].allocations[k].port = port
               /\ nodes[n].allocations[k].owner = sid
          /\ \A n \in 1..Len(nodes') : \A k \in 1..Len(nodes'[n].allocations) :
               (nodes'[n].id = servers'[sid].node.id
                /\ nodes'[n].allocations[k].owner = sid)
               => nodes'[n].allocations[k].type =
                    IF nodes'[n].allocations[k].port = port
                    THEN "primary" ELSE "secondary"]_vars

\* C13: the remove route succeeds only when the allocation with that port on
\* the server's node is owned by the server; after it succeeds the allocation
\* has no owner, the port is not in the server's port list, and the server's
\* primary port is the port of an allocation it still owns, or null when it
\* owns none.
RemoveReleases ==
  [][(/\ resp'.op = "removeAllocationFromServer"
      /\ resp'.remote = "ok"
      /\ resp'.err = ""
      /\ job' = job) =>
       LET sid == resp'.args[2]
           port == resp'.args[3]
       IN /\ sid \in DOMAIN servers'
          /\ \E n \in 1..Len(nodes) : \E k \in 1..Len(nodes[n].allocations) :
               /\ nodes[n].id = servers'[sid].node.id
               /\ nodes[n].allocations[k].port = port
               /\ nodes[n].allocations[k].owner = sid
          /\ \A n \in 1..Len(nodes') : \A k \in 1..Len(nodes'[n].allocations) :
               (nodes'[n].id = servers'[sid].node.id
                /\ nodes'[n].allocations[k].port = port)
               => nodes'[n].allocations[k].owner = Undef
          /\ ~Includes(servers'[sid].ports, port)
          /\ IF \E n \in 1..Len(nodes') : \E k \in 1..Len(nodes'[n].allocations) :
                  nodes'[n].allocations[k].owner = sid
             THEN \E n \in 1..Len(nodes') : \E k \in 1..Len(nodes'[n].allocations) :
                    /\ nodes'[n].allocations[k].owner = sid
                    /\ nodes'[n].allocations[k].port = servers'[sid].port
             ELSE servers'[sid].port = Undef]_vars

\* C14: the add route is rejected, without a call to the node agent and
\* without a change to a table, when the server's node has no allocation
\* with that port, when that allocation has an owner, or when it would be
\* marked primary while the server already holds a primary on that node.
AddRejected ==
  [][(/\ resp'.op = "addAllocationToServer"
      /\ job' = job
      /\ resp'.args[2] \in DOMAIN servers
      /\ HasNode(servers[resp'.args[2]].node.id)
      /\ LET server == servers[resp'.args[2]]
             allocs == GetNode(server.node.id).allocations
             k == AllocIndexByPort(allocs, resp'.args[3])
         IN \/ k = 0
            \/ allocs[k].owner # Undef
            \/ /\ allocs[k].type = "primary" \/ server.port = Undef
               /\ HasPrimary(allocs, server.id))
     => /\ resp'.remote = "none"
        /\ resp'.err # ""
        /\ UNCHANGED <<nodes, servers, users>>]_vars

\* C15: a console or stats relay request with no session actor, for a server
\* id that does not exist, for a server whose stored owner is not the session
\* actor, or for a server whose node resolves to no stored node record, has
\* its client stream closed at once, and no node-facing connection is opened
\* for it.
RelayRefusedClosesClient ==
  [][(/\ relay'.n = relay.n + 1
      /\ \/ relay'.actor = Undef
         \/ relay'.sid \notin DOMAIN servers
         \/ /\ relay'.sid \in DOMAIN servers
            /\ \/ servers[relay'.sid].userId # relay'.actor
               \/ NodeIndexByIp(nodes, servers[relay'.sid]) = 0)
     => /\ relay'.client = "closed"
        /\ relay'.node = "none"]_vars

\* C16: on the console and the stats relay, when the client stream or the
\* node stream has closed or failed, in any state of the other stream (the
\* node stream still connecting included), the paired stream is eventually
\* closed too: no node stream stays connecting or open after its client
\* stream closed, and no client stream stays open after its node stream
\* closed.
PairedStreamClosesToo ==
  /\ (relay.paired /\ relay.client = "closed") ~> (relay.node \notin {"connecting", "open"})
  /\ (relay.paired /\ relay.node = "closed") ~> (relay.client = "closed")

\* C17: once a relay request passed its checks, the first frame written to
\* the node stream is the auth frame with the secret of the node record the
\* stream connects to, and the second is the subscribe frame (logs for the
\* console, stats for the stats relay) whose containerId field is the
\* server's idt and not the server's containerId.
AuthThenSubscribeByIdt ==
  relay.sent # <<>> =>
    /\ Len(relay.sent) >= 2
    /\ relay.sent[1].event = "auth"
    /\ relay.sent[1].payload = [key |-> NodeKey(relay.nodeId)]
    /\ relay.sent[2].event = (IF relay.kind = "console" THEN "logs" ELSE "stats")
    /\ DOMAIN relay.sent[2].payload = {"containerId"}
    /\ relay.sid \in DOMAIN servers =>
          /\ relay.sent[2].payload.containerId = servers[relay.sid].idt
          /\ relay.sent[2].payload.containerId # servers[relay.sid].containerId

\* Both frames were written, a frame of the client followed them and the
\* server is still stored.
ClientFrameAfterSubscribe ==
  /\ Len(relay.sent) = 3
  /\ relay.sent[3] \in ClientFrames
  /\ relay.sid \in DOMAIN servers

\* C18: on the stats relay a frame of the node agent is forwarded to the
\* client if and only if it is an envelope (an object with an event and a
\* payload) whose event is stats, what is forwarded is the payload alone,
\* and every other frame is dropped: nothing else reaches the client.
StatsRelayForwardsOnlyStats ==
  /\ [][(relay.kind = "stats" /\ relay'.seen = relay.seen + 1 /\ relay.client = "open")
        => IF /\ relay'.last.form = "object"
              /\ relay'.last.event = "stats"
              /\ relay'.last.payload # Undef
           THEN relay'.got = Append(relay.got, [form |-> "payload",
                                                data |-> relay'.last.payload])
           ELSE relay'.got = relay.got]_vars
  /\ [](relay.kind = "stats" =>
          /\ Len(relay.got) <= relay.seen
          /\ \A i \in 1..Len(relay.got) : relay.got[i].form = "payload")

\* The stats relay handed the payload of a stats envelope to its client.
StatsPayloadForwarded ==
  /\ relay.kind = "stats"
  /\ relay.last = [form |-> "object", event |-> "stats", payload |-> 1]
  /\ relay.got = <<[form |-> "payload", data |-> 1]>>

\* C19: suspend sets and unsuspend clears the suspended flag on the canonical
\* server record and, when the owning user holds a copy of the server, on
\* that copy, whatever the node agent does; after the call both records
\* carry the same flag value.
SuspendFlagsBoth ==
  [][(resp'.op \in {"suspend", "unsuspend"} /\ resp'.args[1] \in DOMAIN servers)
     => LET sid == resp'.args[1]
            flag == (resp'.op = "suspend")
            owner == servers[sid].userId
        IN /\ resp'.status = 200
           /\ sid \in DOMAIN servers'
           /\ servers'[sid].suspended = flag
           /\ owner \in DOMAIN users =>
                 /\ owner \in DOMAIN users'
                 /\ Len(users'[owner].servers) = Len(users[owner].servers)
                 /\ \A i \in 1..Len(users'[owner].servers) :
                       users'[owner].servers[i].id = sid =>
                         users'[owner].servers[i].suspended = servers'[sid].suspended]_vars

\* A server was suspended whose owner's copy is older than the canonical
\* record: both carry the flag.
SuspendedWithStaleCopy ==
  /\ resp.op = "suspend"
  /\ resp.status = 200
  /\ resp.args[1] \in DOMAIN servers
  /\ LET server == servers[resp.args[1]]
     IN /\ server.suspended
        /\ server.userId \in DOMAIN users
        /\ \E i \in 1..Len(users[server.userId].servers) :
              /\ users[server.userId].servers[i].id = server.id
              /\ users[server.userId].servers[i].suspended
              /\ users[server.userId].servers[i] # server

\* C20: when the node agent accepts the edit, the server's environment
\* becomes the patch merged onto the stored environment (the patch's values
\* win, and a variable the image declares that is in neither takes the
\* image's default), the canonical record is replaced by the updated server,
\* and so is the entry with the same id in the owner's list.
EditMergesAndReplaces ==
  [][(resp'.op = "editServer" /\ resp'.remote = "ok")
     => LET sid == resp'.args[1]
            patch == resp'.args[3]
            old == servers[sid]
            new == servers'[sid]
            image == Images[IF resp'.args[2] # Undef THEN resp'.args[2] ELSE old.imageId]
            owner == old.userId
        IN /\ DOMAIN new.env = DOMAIN old.env \cup DOMAIN patch \cup DOMAIN image.envs
           /\ \A k \in DOMAIN new.env :
                 new.env[k] = IF k \in DOMAIN patch THEN patch[k]
                              ELSE IF k \in DOMAIN old.env THEN old.env[k]
                              ELSE image.envs[k]
           /\ new.imageId = image.id
           /\ [new EXCEPT !.env = old.env, !.imageId = old.imageId,
                          !.containerId = old.containerId] = old
           /\ owner \in DOMAIN users =>
                 /\ Len(users'[owner].servers) = Len(users[owner].servers)
                 /\ \A i \in 1..Len(users'[owner].servers) :
                       users'[owner].servers[i] =
                         IF users[owner].servers[i].id = sid THEN new
                         ELSE users[owner].servers[i]]_vars

\* An edit to image 2 with the patch {1: 1} went through: variable 1 has the
\* patch's value, variable 2 a stored or default value, the node's new
\* container is recorded, and the owner's entry is the canonical record.
EditedWithPatch ==
  /\ resp.op = "editServer"
  /\ resp.remote = "ok"
  /\ resp.args[2] = 2
  /\ DOMAIN resp.args[3] = {1}
  /\ resp.args[3][1] = 1
  /\ resp.args[1] \in DOMAIN servers
  /\ LET server == servers[resp.args[1]]
     IN /\ DOMAIN server.env = {1, 2}
        /\ server.env[1] = 1
        /\ server.env[2] = 2
        /\ server.imageId = 2
        /\ server.hasPorts
        /\ server.userId \in DOMAIN users
        /\ \E i \in 1..Len(users[server.userId].servers) :
              users[server.userId].servers[i] = server

EditFailureIsAdvisory ==
  [][(resp'.op = "editServer" /\ job' = job /\ resp'.remote = "fail")
       => /\ servers'[resp'.args[1]].env = resp'.args[5].env
          /\ \A i \in 1..Len(users'[servers[resp'.args[1]].userId].servers) :
               users'[servers[resp'.args[1]].userId].servers[i].id = resp'.args[1]
                 => users'[servers[resp'.args[1]].userId].servers[i].env
                      = resp'.args[5].env]_vars

\* C22: a range add start-end appends exactly one allocation for each port
\* of [start, end] the node did not hold for that ip and nothing else, with
\* every batch size giving the same list; it reports the number appended,
\* and the same range added again appends nothing.
RangeAddsExactlyMissing ==
  [][(resp'.op = "addAllocation" /\ resp'.status = 200 /\ Len(resp'.args) = 5)
       => LET nid == resp'.args[1]
              ip == resp'.args[2]
              start == resp'.args[3]
              end == resp'.args[4]
              k == NodeIndex(nid)
              old == nodes[k].allocations
              new == nodes'[k].allocations
              missing == {p \in start..end : ~AllocationExists(old, ip, p)}
          IN /\ Len(nodes') = Len(nodes)
             /\ \A n \in 1..Len(nodes) :
                  n # k => nodes'[n] = nodes[n]
             /\ Len(new) = Len(old) + Cardinality(missing)
             /\ SubSeq(new, 1, Len(old)) = old
             /\ \A i \in (Len(old) + 1)..Len(new) :
                  /\ new[i].ip = ip
                  /\ new[i].port \in missing
                  /\ new[i].owner = Undef
                  /\ new[i].type = ""
             /\ \A p \in missing :
                  Cardinality({i \in 1..Len(new) :
                                 new[i].ip = ip /\ new[i].port = p}) = 1
             /\ resp'.args[5] = Cardinality(missing)
             /\ \A b \in 1..MaxBatch :
                  AddBatches(old, ip, RangePorts(start, end), 1, b,
                             fresh.alloc, Len(old)) = new
             /\ AddBatches(new, ip, RangePorts(start, end), 1, BatchSize,
                           fresh'.alloc, Len(new)) = new
             /\ (missing = {} => (nodes' = nodes /\ resp'.args[5] = 0))]_vars

RangeAddedPartly ==
  /\ resp.op = "addAllocation"
  /\ resp.status = 200
  /\ Len(resp.args) = 5
  /\ resp.args[5] >= 1
  /\ resp.args[5] < resp.args[4] - resp.args[3] + 1

\* C23: an allocation edit that names a port, with or without a new ip,
\* whose resulting (ip, port) another allocation of the same node already
\* has is answered 409 and leaves the stored allocation lists as they were.
EditCollisionRejected ==
  [][(/\ resp'.op = "editAllocation"
      /\ HasNode(resp'.args[1])
      /\ AllocIndexById(GetNode(resp'.args[1]).allocations, resp'.args[2]) # 0
      /\ resp'.args[4] # Undef
      /\ LET allocs == GetNode(resp'.args[1]).allocations
             k == AllocIndexById(allocs, resp'.args[2])
             ip == IF resp'.args[3] # Undef THEN resp'.args[3] ELSE allocs[k].ip
         IN \E j \in 1..Len(allocs) :
               j # k /\ allocs[j].ip = ip /\ allocs[j].port = resp'.args[4])
       => (resp'.status = 409 /\ nodes' = nodes)]_vars

EditCollidedWithNewIp ==
  /\ resp.op = "editAllocation"
  /\ resp.status = 409
  /\ resp.args[3] # Undef
  /\ HasNode(resp.args[1])
  /\ LET allocs == GetNode(resp.args[1]).allocations
         k == AllocIndexById(allocs, resp.args[2])
     IN k # 0 /\ allocs[k].ip # resp.args[3]

\* C24: on a create that goes through, the environment posted to the node
\* agent and the one stored on the server hold, for every variable the image
\* declares, the caller's value where the caller gave one and the image's
\* default value otherwise.
CreateEnvMerged ==
  [][(resp'.op = "createServer" /\ resp'.status = 200
      /\ resp'.args[4] \notin DOMAIN servers)
       => LET image == Images[resp'.args[5]]
              env == resp'.args[6]
              sent == resp'.args[7].env
              stored == servers'[resp'.args[4]].env
          IN /\ DOMAIN image.envs \subseteq DOMAIN sent
             /\ DOMAIN image.envs \subseteq DOMAIN stored
             /\ \A k \in DOMAIN image.envs :
                  /\ k \in DOMAIN env => (sent[k] = env[k] /\ stored[k] = env[k])
                  /\ k \notin DOMAIN env
                       => (sent[k] = image.envs[k] /\ stored[k] = image.envs[k])]_vars

CreatedWithOverrideAndDefault ==
  /\ resp.op = "createServer"
  /\ resp.status = 200
  /\ \E k, d \in DOMAIN Images[resp.args[5]].envs :
       /\ k \in DOMAIN resp.args[6]
       /\ resp.args[6][k] # Images[resp.args[5]].envs[k]
       /\ d \notin DOMAIN resp.args[6]
       /\ servers[resp.args[4]].env[k] = resp.args[6][k]
       /\ servers[resp.args[4]].env[d] = Images[resp.args[5]].envs[d]

\* C26: a user delete whose target is the acting admin is answered with a
\* rejection; it starts no clean-up (so no call to a node agent) and leaves
\* every user, server and node record, allocations included, as it was.
SelfDeleteRejected ==
  [][/\ (job'.kind = "deleteUser" => job'.actor # job'.id)
     /\ (resp'.op = "deleteUser" /\ resp'.args[1] = resp'.args[2] /\ job' = job)
          => /\ resp'.status = 400
             /\ resp'.remote = "none"
             /\ UNCHANGED <<nodes, servers, users>>]_vars

SelfDeleteOfOwnerRefused ==
  /\ resp.op = "deleteUser"
  /\ resp.status = 400
  /\ resp.args[1] = resp.args[2]
  /\ job = Idle
  /\ resp.args[1] \in DOMAIN users
  /\ users[resp.args[1]].servers # <<>>

\* C27: the health probe yields exactly one of online, dockernotrunning and
\* offline, never an exception: online only for a successful answer whose
\* status is online, dockernotrunning only for a successful answer whose
\* status is dockernotrunning, offline for a failed or silent connection, a
\* non-success response and every other body.
ProbeYieldsOneOfThree ==
  [][(resp'.op = "nodeInfo" /\ resp'.status = 200)
       => LET answer == resp'.args[2]
              status == resp'.args[3]
              good == answer.transport = "ok" /\ answer.ok /\ answer.json = "object"
          IN /\ status \in {"online", "dockernotrunning", "offline"}
             /\ status = "online" <=> (good /\ answer.status = "online")
             /\ status = "dockernotrunning"
                  <=> (good /\ answer.status = "dockernotrunning")
             /\ nodes'[NodeIndex(resp'.args[1])].status = status]_vars

ProbeFailedAfterOnline ==
  /\ resp.op = "nodeInfo"
  /\ resp.status = 200
  /\ resp.args[2].transport = "timeout"
  /\ resp.args[3] = "offline"
  /\ \E n \in 1..Len(nodes) : nodes[n].status = "dockernotrunning"

\* C28: an API request is handed to its handler only when it carries a
\* token whose hash is that of a stored key which is not disabled and holds
\* true for every capability of the route; any other request is answered by
\* the gate (401 or 403) and no request changes a table before its handler.
ApiGateAdmitsOnlyValidKeys ==
  [][LET h == resp'.args[1]
         route == resp'.args[2]
         carried == IF h.auth = "Bearer" /\ h.bearer # Undef THEN h.bearer ELSE h.xkey
         valid == /\ carried # Undef
                  /\ \E i \in 1..Len(ApiKeys) :
                       /\ ApiKeys[i].tokenHash = TokenHash(carried)
                       /\ ApiKeys[i].visible # FALSE
                       /\ \A j \in 1..Len(RoutePerms(route)) :
                            ApiKeys[i].perms[RoutePerms(route)[j]] = TRUE
     IN /\ resp'.op = "apiNext" => (valid /\ UNCHANGED <<nodes, servers, users>>)
        /\ resp'.op = "api"
             => /\ ~valid
                /\ resp'.status \in {401, 403}
                /\ UNCHANGED <<nodes, servers, users>>
        /\ resp'.op \notin {"api", "apiNext"} => resp.op = "apiNext"
        /\ <<nodes, servers, users>>' # <<nodes, servers, users>>
             => resp.op = "apiNext"]_vars

ApiKeyWithOneCapabilityRefused ==
  /\ resp.op = "api"
  /\ resp.status = 403
  /\ resp.args[2] = "servers/delete"
  /\ resp.args[3] # 0
  /\ ApiKeys[resp.args[3]].perms["servers"]
  /\ ~ApiKeys[resp.args[3]].perms["nodes"]
  /\ servers # <<>>

\* C29: a request that ends in a validation error (a required field left
\* out, a node, server, user, allocation or image that does not exist, a
\* duplicate (ip, port), an allocation already owned, an invalid range) is
\* answered before any call to a node agent and leaves the node, server and
\* user tables as they were.
ValidationErrorsChangeNothing ==
  [][(/\ job' = job
      /\ \/ resp'.status \in {400, 404, 409}
         \/ /\ resp'.status = 302
            /\ resp'.err \in {"invalid_allocation", "allocation_taken",
                              "primary_exists", "allocation_not_owned"})
       => /\ resp'.remote = "none"
          /\ UNCHANGED <<nodes, servers, users>>]_vars

CreateRefusedOnOwnedAllocation ==
  /\ resp.op = "createServer"
  /\ resp.status = 409
  /\ resp.remote = "none"
  /\ servers # <<>>
  /\ \E n \in 1..Len(nodes) : \E i \in 1..Len(nodes[n].allocations) :
       nodes[n].allocations[i].id = resp.args[2]
       /\ nodes[n].allocations[i].owner # Undef

\* C25: interpolating a template gives a result for every input: a value
\* that is no string comes back as it is; a string without a complete
\* ${VAR} token comes back unchanged; every token is replaced by VAR's value
\* in the merged environment, else in the process environment, else by the
\* empty string; and a replaced value that holds a token is not expanded.
InterpolatesOnce ==
  resp.op = "interpolateEnv" =>
    LET str == resp.args[1]
        envObj == resp.args[2]
        procEnv == resp.args[3]
        pieces == resp.args[4]
        out == resp.args[5]
        s == str.text
        Val(name) == IF name \in DOMAIN envObj /\ envObj[name].kind = "string"
                     THEN envObj[name].text
                     ELSE IF name \in DOMAIN procEnv THEN procEnv[name] ELSE <<>>
        IsToken(i, j) == /\ i + 3 <= j
                         /\ s[i] = "$" /\ s[i + 1] = "{" /\ s[j] = "}"
                         /\ \A k \in (i + 2)..(j - 1) : s[k] \in WordChars
        Matches == {m \in (1..Len(s)) \X (1..Len(s)) : IsToken(m[1], m[2])}
        Clean(p) == p \in {<<"/">>, <<"A">>} \/ (Len(p) = 4)
        PieceOut(p) == IF Len(p) = 4 THEN Val(<<p[3]>>) ELSE p
        RECURSIVE Joined(_)
        Joined(ps) == IF ps = <<>> THEN <<>>
                      ELSE PieceOut(Head(ps)) \o Joined(Tail(ps))
    IN /\ out.kind = str.kind
       /\ str.kind # "string" => out = str
       /\ (str.kind = "string" /\ Matches = {}) => out.text = s
       /\ (str.kind = "string" /\ Cardinality(Matches) = 1) =>
            \A m \in Matches :
               out.text = SubSeq(s, 1, m[1] - 1)
                            \o Val(SubSeq(s, m[1] + 2, m[2] - 1))
                            \o SubSeq(s, m[2] + 1, Len(s))
       /\ (str.kind = "string" /\ \A i \in 1..Len(pieces) : Clean(pieces[i])) =>
            out.text = Joined(pieces)

TokenValueWithTokenKept ==
  /\ resp.op = "interpolateEnv"
  /\ resp.args[1].text = <<"$", "{", "A", "}", "$", "{", "B", "}">>
  /\ <<"A">> \in DOMAIN resp.args[2]
  /\ resp.args[2][<<"A">>].text = <<"$", "{", "B", "}">>
  /\ <<"B">> \in DOMAIN resp.args[2]
  /\ resp.args[5].text = <<"$", "{", "B", "}", "/">>

\* C31: a change committed to a node's allocation list is never discarded by
\* a concurrent operation on the same node: when a create or a network claim
\* that waited for the node agent writes the list back, every allocation
\* other than the one the request names is stored as it was stored just
\* before the write.
NoLostAllocationUpdate ==
  [][\A i \in 1..Len(pending) :
       (pending' = RemoveAt(pending, i) /\ resp'.remote = "ok") =>
         \A n \in 1..Len(nodes) : \A k \in 1..Len(nodes[n].allocations) :
           \/ nodes'[n].allocations[k] = nodes[n].allocations[k]
           \/ /\ nodes[n].id = pending[i].nodeId
              /\ \/ pending[i].op = "create"
                    /\ nodes[n].allocations[k].id = pending[i].allocId
                 \/ pending[i].op = "add"
                    /\ nodes[n].allocations[k].port = pending[i].port]_vars

\* C34: during deleteNode and deleteUser the clean-ups run one after
\* another: at most one call to the node agent is unanswered, it is the call
\* for the server the loop is at, and the turns before it have finished.
CascadeSequential ==
  /\ Len(pending) <= 1
  /\ pending # <<>> =>
       /\ job.kind \in {"deleteNode", "deleteUser"}
       /\ job.at <= Len(job.list)
       /\ pending[1].server = job.list[job.at]

\* The second server of a delete loop has its call in flight, the first
\* server's clean-up done.
SecondCallInFlight ==
  /\ pending # <<>>
  /\ job.at = 2
  /\ job.list[1].id \notin DOMAIN servers
  /\ job.list[2].id \in DOMAIN servers

\* C38: deleteNode on a node changes nothing that belongs to another node:
\* a server bound to a different node keeps its canonical record and its
\* owner's embedded copy, and the allocations of the other nodes keep their
\* owner and role.
DeleteNodeKeepsOtherNodes ==
  [][job.kind = "deleteNode" =>
       /\ \A sid \in DOMAIN servers :
            servers[sid].node.id # job.id =>
              /\ sid \in DOMAIN servers'
              /\ servers'[sid] = servers[sid]
       /\ \A u \in DOMAIN users : \A i \in 1..Len(users[u].servers) :
            users[u].servers[i].node.id # job.id =>
              /\ u \in DOMAIN users'
              /\ \E j \in 1..Len(users'[u].servers) :
                     users'[u].servers[j] = users[u].servers[i]
       /\ \A n \in 1..Len(nodes) :
            nodes[n].id # job.id =>
              \E m \in 1..Len(nodes') :
                 /\ nodes'[m].id = nodes[n].id
                 /\ nodes'[m].allocations = nodes[n].allocations]_vars

\* C36: an allocation that has no owner carries no role: every operation
\* that clears the ownership of an allocation resets its type as well.
FreeAllocationHasNoRole ==
  \A n \in 1..Len(nodes) : \A k \in 1..Len(nodes[n].allocations) :
     nodes[n].allocations[k].owner = Undef => nodes[n].allocations[k].type = ""

\* C39: when the call to the node agent of the add, setprimary or remove
\* route fails, nothing is persisted: the node table, the canonical servers
\* and the users' embedded copies are as before the request.
NetworkFailureWritesNothing ==
  [][(/\ resp'.op \in {"addAllocationToServer", "setPrimary",
                       "removeAllocationFromServer"}
      /\ resp'.remote = "fail")
     => UNCHANGED <<nodes, servers, users>>]_vars

\* A claim of a free port by the server's owner failed at the node agent.
NetworkCallFailed ==
  /\ resp.op = "addAllocationToServer"
  /\ resp.remote = "fail"
  /\ resp.args[2] \in DOMAIN servers
  /\ servers[resp.args[2]].userId = resp.args[1]
  /\ \E n \in 1..Len(nodes) :
       /\ nodes[n].ip = servers[resp.args[2]].node.ip
       /\ \E k \in 1..Len(nodes[n].allocations) :
            /\ nodes[n].allocations[k].port = resp.args[3]
            /\ nodes[n].allocations[k].owner = Undef

\* C35: the primary port of every canonical server, when it is not null, is
\* the port of an allocation that exists on the server's node and is owned by
\* that server.
PrimaryPortIsOwned ==
  \A sid \in DOMAIN servers :
     servers[sid].port # Undef =>
       \E n \in 1..Len(nodes) :
          /\ nodes[n].id = servers[sid].node.id
          /\ \E k \in 1..Len(nodes[n].allocations) :
               /\ nodes[n].allocations[k].port = servers[sid].port
               /\ nodes[n].allocations[k].owner = sid

\* C32: after every completed server mutation, whoever performed it (the
\* owner, or an admin acting on another user's server), the canonical record
\* and the copy embedded in the owner's list agree on the fields the
\* mutation changed: here the port, the port list and the container of a
\* completed network claim, primary change or release.
MutationSyncsOwnerCopy ==
  [][(/\ resp'.op \in {"addAllocationToServer", "setPrimary",
                       "removeAllocationFromServer"}
      /\ resp'.status = 302
      /\ resp'.err = "")
     => LET sid == resp'.args[2]
            owner == servers'[sid].userId
        IN \E i \in 1..Len(users'[owner].servers) :
              /\ users'[owner].servers[i].id = sid
              /\ users'[owner].servers[i].port = servers'[sid].port
              /\ users'[owner].servers[i].hasPorts = servers'[sid].hasPorts
              /\ users'[owner].servers[i].ports = servers'[sid].ports
              /\ users'[owner].servers[i].containerId = servers'[sid].containerId]_vars

AuditNeverLoses ==
  [][\A sid \in DOMAIN servers :
       sid \in DOMAIN servers' =>
         /\ Len(AuditOf(servers'[sid])) >= Len(AuditOf(servers[sid]))
         /\ SubSeq(AuditOf(servers'[sid]), 1, Len(AuditOf(servers[sid])))
              = AuditOf(servers[sid])]_vars

====
